---------------------------- MODULE Spec2Model ----------------------------
(***************************************************************************)
(* DataHub database-resource-control layer: PGBackend (core/db/backend/pg) *)
(* as exercised by core/test/test_connector_pg.py, and the web handlers of *)
(* browser/views.py and api/serializer.py that call it through             *)
(* DataHubManager.                                                         *)
(*                                                                         *)
(* Names are character sequences where the program looks inside them (the  *)
(* identifier validator, the statement-separator cut) and strings where    *)
(* it only passes them on.                                                 *)
(***************************************************************************)
EXTENDS Integers, Sequences, FiniteSets, TLC

VARIABLES
    noun,       \* the argument of _check_for_injections
    verdict,    \* "none" before the call, then "accepted" or "ValueError"
    call,       \* the backend call in hand: [op, a] (a: its arguments)
    outcome,    \* "pending", then "returned", "ValueError" or "LookupError"
    checked,    \* the nouns handed to _check_for_injections, in order
    executed,   \* the statements handed to execute_sql, in order
    driver,     \* the statements cursor.execute received, in order
    result,     \* the record the last execute_sql of the call returned
    db,         \* the databases as every connection sees them (committed)
    session,    \* the connection of the manager whose call is running
    obs,        \* what a manager on another connection last read
    web         \* the last web request and its response

validator_vars == <<noun, verdict>>
call_vars == <<call, outcome, checked, executed, driver, result>>
db_vars == <<db, session, obs, web>>
vars == <<noun, verdict, call, outcome, checked, executed, driver, result,
          db, session, obs, web>>

(***************************************************************************)
(* Bounds                                                                  *)
(***************************************************************************)
MaxNounLen == 3
MaxQueryLen == 3
MaxListedUsers == 2
MaxRows == 12
MaxRowsPerPage == 4
MaxPage == 7
MaxCalls == 2
MaxAclRows == 3
MaxApps == 3

(***************************************************************************)
(* The database server: one database per repo base, one schema per repo.   *)
(***************************************************************************)
Range(f) == { f[i] : i \in DOMAIN f }

\* settings.DATABASES['default']['USER']
settings_user == "postgres"

Bases == {"alice", "bob"}
Roles == Bases \cup {settings_user}
SchemaNames == {"repo", "public"}

Absent == [absent |-> TRUE]
NoAcl == [r \in Roles |-> {}]
\* a schema: its owner, its access-control list (nspacl), what each role may
\* do on its current tables and on tables created later, and the tables in it
Schema(owner) ==
    [owner |-> owner, nspacl |-> NoAcl, tables |-> NoAcl, defaults |-> NoAcl,
     relations |-> {}]

\* a database just created holds the server's own schema only
NewDatabase ==
    [n \in SchemaNames |-> IF n = "public" THEN Schema(settings_user) ELSE Absent]
NewServer == [b \in Bases |-> NewDatabase]

NoSession == [state |-> "idle"]
NoObs == [op |-> "none"]
NoRequest == [view |-> "none"]

DbIdle ==
    /\ db = NewServer
    /\ session = NoSession
    /\ obs = NoObs
    /\ web = NoRequest

(***************************************************************************)
(* Identifier validator                                                    *)
(***************************************************************************)
Letter ==
    {"a", "b", "c", "d", "e", "f", "g", "h", "i", "j", "k", "l", "m", "n", "o",
     "p", "q", "r", "s", "t", "u", "v", "w", "x", "y", "z",
     "A", "B", "C", "D", "E", "F", "G", "H", "I", "J", "K", "L", "M", "N", "O",
     "P", "Q", "R", "S", "T", "U", "V", "W", "X", "Y", "Z"}
Digit == {"0", "1", "2", "3", "4", "5", "6", "7", "8", "9"}
Underscore == "_"
Hyphen == "-"
Whitespace == {" "}
Separator == ";"

\* the alphabet the bounded nouns are drawn from: one or two characters of
\* every class the validator tells apart
Alphabet == {"a", "Z", "7", Underscore, Hyphen, " ", Separator}

good_nouns ==
    { <<"g","o","o","d">>,
      <<"g","o","o","d","_","n","o","u","n">>,
      <<"g","o","o","d","-","n","o","u","n">> }

bad_nouns ==
    { <<"_","f","o","o">>, <<"f","o","o","_">>,
      <<"-","f","o","o">>, <<"f","o","o","-">>,
      <<"f","o","o"," ","b","a","r">>,
      <<"i","n","j","e","c","t","i","o","n",";","a","t","t","a","c","k">>,
      <<";","i","n","j","e","c","t","i","o","n">>,
      <<"i","n","j","e","c","t","i","o","n",";">> }

BoundedNouns == UNION { [1..n -> Alphabet] : n \in 0..MaxNounLen }

Nouns == BoundedNouns \cup good_nouns \cup bad_nouns

\* a validator that forgets the last character
check_for_injections_no_tail(w) ==
    /\ Len(w) > 0
    /\ w[1] \in Letter
    /\ \A i \in 1..Len(w) : w[i] \in Letter \cup Digit \cup {Underscore, Hyphen}

\* TRUE when the noun passes, FALSE when the program raises ValueError
check_for_injections(w) ==
    /\ Len(w) > 0
    /\ w[1] \in Letter
    /\ \A i \in 1..Len(w) : w[i] \in Letter \cup Digit \cup {Underscore, Hyphen}
    /\ w[Len(w)] \notin {Underscore, Hyphen}

NoCall == [op |-> "none", a |-> <<>>]
NoResult == [status |-> "none"]

CallIdle ==
    /\ call = NoCall
    /\ outcome = "pending"
    /\ checked = <<>>
    /\ executed = <<>>
    /\ driver = <<>>
    /\ result = NoResult

ValidatorIdle ==
    /\ noun = <<>>
    /\ verdict = "none"

ValidatorInit ==
    /\ noun \in Nouns
    /\ verdict = "none"
    /\ CallIdle
    /\ DbIdle

Validate ==
    /\ verdict = "none"
    /\ verdict' = IF check_for_injections(noun) THEN "accepted" ELSE "ValueError"
    /\ UNCHANGED <<noun, call_vars, db_vars>>

SpecValidator == ValidatorInit /\ [][Validate]_vars

(***************************************************************************)
(* Names that are only passed on are strings; Spelling gives the           *)
(* characters _check_for_injections sees.                                  *)
(***************************************************************************)
Spelling ==
    "good" :> <<"g","o","o","d">> @@
    "good_noun" :> <<"g","o","o","d","_","n","o","u","n">> @@
    "foo_" :> <<"f","o","o","_">> @@
    ";injection" :> <<";","i","n","j","e","c","t","i","o","n">> @@
    "username" :> <<"u","s","e","r","n","a","m","e">> @@
    "alice" :> <<"a","l","i","c","e">> @@
    "bob" :> <<"b","o","b">> @@
    "postgres" :> <<"p","o","s","t","g","r","e","s">> @@
    "public" :> <<"p","u","b","l","i","c">> @@
    "repo" :> <<"r","e","p","o">> @@
    "Good" :> <<"G","o","o","d">> @@
    "Alice" :> <<"A","l","i","c","e">> @@
    "SELECT" :> <<"S","E","L","E","C","T">> @@
    "INSERT" :> <<"I","N","S","E","R","T">> @@
    "UPDATE" :> <<"U","P","D","A","T","E">> @@
    "USAGE" :> <<"U","S","A","G","E">> @@
    "CSV" :> <<"C","S","V">> @@
    "file_path" :> <<"f","i","l","e","_","p","a","t","h">> @@
    "user_name" :> <<"u","s","e","r","_","n","a","m","e">> @@
    "repo_name" :> <<"r","e","p","o","_","n","a","m","e">> @@
    "table_name" :> <<"t","a","b","l","e","_","n","a","m","e">> @@
    "tweedledee" :> <<"t","w","e","e","d","l","e","d","e","e">> @@
    "tweedledum" :> <<"t","w","e","e","d","l","e","d","u","m">> @@
    "\"" :> <<"\"">>

\* _check_for_injections on a name: TRUE when it returns, FALSE when it raises
Safe(name) == check_for_injections(Spelling[name])

(***************************************************************************)
(* SQL text is a sequence of pieces; the piece ";" is the statement         *)
(* separator, so a template is the concatenation of its pieces.             *)
(***************************************************************************)
\* Python's None, by the word the driver sends for it; no caller passes that
\* word as a text
None == "NULL"
Bound(v) == [v |-> v, raw |-> FALSE]    \* an ordinary bound parameter
AsIs(v) == [v |-> v, raw |-> TRUE]      \* psycopg2.extensions.AsIs(v)
Stmt(sql, params) == [sql |-> sql, params |-> params]
Values(params) == [i \in 1..Len(params) |-> params[i].v]

\* the schema created without IF NOT EXISTS
create_repo_sql_strict == <<"CREATE SCHEMA %s AUTHORIZATION %s">>

create_repo_sql == <<"CREATE SCHEMA IF NOT EXISTS %s AUTHORIZATION %s">>
drop_schema_sql == <<"DROP SCHEMA %s %s">>
list_repo_sql ==
    <<"SELECT schema_name AS repo_name FROM information_schema.schemata WHERE schema_owner != %s">>
\* the grants sent as three separate statements
add_collab_query_no_transaction ==
    <<"GRANT USAGE ON SCHEMA %s TO %s", ";",
      "GRANT %s ON ALL TABLES IN SCHEMA %s TO %s", ";",
      "ALTER DEFAULT PRIVILEGES IN SCHEMA %s GRANT %s ON TABLES TO %s", ";">>

add_collab_query ==
    <<"BEGIN", ";",
      "GRANT USAGE ON SCHEMA %s TO %s", ";",
      "GRANT %s ON ALL TABLES IN SCHEMA %s TO %s", ";",
      "ALTER DEFAULT PRIVILEGES IN SCHEMA %s GRANT %s ON TABLES TO %s", ";",
      "COMMIT", ";">>
\* the revokes sent as three separate statements
delete_collab_sql_no_transaction ==
    <<"REVOKE ALL ON ALL TABLES IN SCHEMA %s FROM %s CASCADE", ";",
      "REVOKE ALL ON SCHEMA %s FROM %s CASCADE", ";",
      "ALTER DEFAULT PRIVILEGES IN SCHEMA %s REVOKE ALL ON TABLES FROM %s", ";">>

delete_collab_sql ==
    <<"BEGIN", ";",
      "REVOKE ALL ON ALL TABLES IN SCHEMA %s FROM %s CASCADE", ";",
      "REVOKE ALL ON SCHEMA %s FROM %s CASCADE", ";",
      "ALTER DEFAULT PRIVILEGES IN SCHEMA %s REVOKE ALL ON TABLES FROM %s", ";",
      "COMMIT", ";">>
list_tables_query ==
    <<"SELECT table_name FROM information_schema.tables WHERE table_schema = %s AND table_type = 'BASE TABLE'", ";">>
list_views_query ==
    <<"SELECT table_name FROM information_schema.tables WHERE table_schema = %s AND table_type = 'VIEW'", ";">>
get_schema_query ==
    <<"SELECT column_name, data_type FROM information_schema.columns WHERE table_name = %s AND table_schema = %s", ";">>
create_user_query ==
    <<"CREATE ROLE %s WITH LOGIN NOCREATEDB NOCREATEROLE NOCREATEUSER PASSWORD %s">>
create_db_query_1 == <<"CREATE DATABASE %s", ";", " ">>
create_db_query_2 == <<"ALTER DATABASE %s OWNER TO %s", ";", " ">>
remove_user_query == <<"DROP ROLE %s", ";">>
revoke_query == <<"REVOKE ALL ON DATABASE %s FROM %s", ";">>
drop_query == <<"DROP DATABASE %s", ";">>
change_password_query == <<"ALTER ROLE %s WITH PASSWORD %s", ";">>
list_collaborators_query ==
    <<"SELECT unnest(nspacl) FROM pg_namespace WHERE nspname=%s", ";">>
list_all_users_query ==
    <<"SELECT usename FROM pg_catalog.pg_user WHERE usename != %s">>
export_table_query == <<"COPY %s TO %s WITH %s %s DELIMITER %s", ";">>
export_query_query == <<"COPY (%s) TO %s WITH %s %s DELIMITER %s", ";">>
import_file_query ==
    <<"COPY %s FROM %s WITH %s %s DELIMITER %s ENCODING %s QUOTE %s", ";">>


(***************************************************************************)
(* PGBackend operations: the nouns each validates, then the statements it  *)
(* hands to execute_sql.  user is the backend's own user (self.user).      *)
(***************************************************************************)
RECURSIVE Join(_, _)
\* sep.join(words)
Join(words, sep) ==
    IF words = <<>> THEN ""
    ELSE IF Len(words) = 1 THEN words[1]
    ELSE words[1] \o sep \o Join(Tail(words), sep)

AllSafe(nouns) == \A i \in 1..Len(nouns) : Safe(nouns[i])
FirstUnsafe(nouns) ==
    CHOOSE i \in 1..Len(nouns) :
        ~Safe(nouns[i]) /\ \A j \in 1..(i - 1) : Safe(nouns[j])

\* what a call leaves behind: the nouns validated, the statements executed
\* and how it ended
Ran(nouns, stmts, how) == [checked |-> nouns, executed |-> stmts, outcome |-> how]
Returned(stmts) == Ran(<<>>, stmts, "returned")

\* the body runs only when every noun passed _check_for_injections, which
\* raises ValueError at the first that does not
Guard(nouns, body) ==
    IF AllSafe(nouns)
    THEN Ran(nouns \o body.checked, body.executed, body.outcome)
    ELSE Ran(SubSeq(nouns, 1, FirstUnsafe(nouns)), <<>>, "ValueError")

header_option(header) == IF header THEN "HEADER" ELSE ""

\* create_repo that validates nothing
create_repo_unchecked(a) == <<>>

create_repo_checks(a) == <<a.repo>>
create_repo_stmts(user, a) ==
    << Stmt(create_repo_sql, <<AsIs(a.repo), AsIs(user)>>) >>
create_repo(user, a) ==
    Guard(create_repo_checks(a), Returned(create_repo_stmts(user, a)))

delete_repo_checks(a) == <<a.repo>>
\* the schema dropped with CASCADE whatever force is
delete_repo_stmts_always_cascade(a) ==
    << Stmt(drop_schema_sql, <<AsIs(a.repo), AsIs("CASCADE")>>) >>

delete_repo_stmts(a) ==
    << Stmt(drop_schema_sql,
            <<AsIs(a.repo), IF a.force THEN AsIs("CASCADE") ELSE Bound(None)>>) >>
delete_repo(a) == Guard(delete_repo_checks(a), Returned(delete_repo_stmts(a)))

list_repos_stmts == << Stmt(list_repo_sql, <<Bound(settings_user)>>) >>

\* the names validated, the privileges not
add_collaborator_checks_names_only(a) == <<a.repo, a.collaborator>>

add_collaborator_checks(a) == <<a.repo, a.collaborator>> \o a.privileges
\* the first privilege only, instead of the joined list
add_collaborator_params_first_only(a) ==
    LET privileges_str == IF a.privileges = <<>> THEN "" ELSE a.privileges[1]
    IN  <<AsIs(a.repo), AsIs(a.collaborator), AsIs(privileges_str),
          AsIs(a.repo), AsIs(a.collaborator),
          AsIs(a.repo), AsIs(privileges_str), AsIs(a.collaborator)>>

add_collaborator_params(a) ==
    LET privileges_str == Join(a.privileges, ", ")
    IN  <<AsIs(a.repo), AsIs(a.collaborator), AsIs(privileges_str),
          AsIs(a.repo), AsIs(a.collaborator),
          AsIs(a.repo), AsIs(privileges_str), AsIs(a.collaborator)>>
add_collaborator_stmts(a) == << Stmt(add_collab_query, add_collaborator_params(a)) >>
add_collaborator(a) ==
    Guard(add_collaborator_checks(a), Returned(add_collaborator_stmts(a)))

delete_collaborator_checks(a) == <<a.repo, a.collaborator>>
\* the second revoke with its two names exchanged
delete_collaborator_params_swapped(a) ==
    <<AsIs(a.repo), AsIs(a.collaborator), AsIs(a.collaborator), AsIs(a.repo),
      AsIs(a.repo), AsIs(a.collaborator)>>

delete_collaborator_params(a) ==
    <<AsIs(a.repo), AsIs(a.collaborator), AsIs(a.repo), AsIs(a.collaborator),
      AsIs(a.repo), AsIs(a.collaborator)>>
delete_collaborator_stmts(a) ==
    << Stmt(delete_collab_sql, delete_collaborator_params(a)) >>
delete_collaborator(a) ==
    Guard(delete_collaborator_checks(a), Returned(delete_collaborator_stmts(a)))

\* list_tables and list_views ask list_repos first; a.repos is its answer
list_tables_checks(a) == <<a.repo>>
\* the catalog asked whatever list_repos answered
list_tables_unresolved(a) ==
    Guard(list_tables_checks(a),
          Returned(list_repos_stmts
                   \o << Stmt(list_tables_query, <<Bound(a.repo)>>) >>))

list_tables(a) ==
    Guard(list_tables_checks(a),
          IF a.repo \in a.repos
          THEN Returned(list_repos_stmts
                        \o << Stmt(list_tables_query, <<Bound(a.repo)>>) >>)
          ELSE Ran(<<>>, list_repos_stmts, "LookupError"))

list_views_checks(a) == <<a.repo>>
list_views(a) ==
    Guard(list_views_checks(a),
          IF a.repo \in a.repos
          THEN Returned(list_repos_stmts
                        \o << Stmt(list_views_query, <<Bound(a.repo)>>) >>)
          ELSE Ran(<<>>, list_repos_stmts, "LookupError"))

get_schema_checks(a) == <<a.repo, a.table>>
get_schema(a) ==
    Guard(get_schema_checks(a),
          Returned(<< Stmt(get_schema_query, <<Bound(a.table), Bound(a.repo)>>) >>))

create_user_database_checks(a) == <<a.username>>
\* the owner set before the database is created
create_user_database_stmts_owner_first(a) ==
    << Stmt(create_db_query_2, <<AsIs(a.username), AsIs(a.username)>>),
       Stmt(create_db_query_1, <<AsIs(a.username)>>) >>

create_user_database_stmts(a) ==
    << Stmt(create_db_query_1, <<AsIs(a.username)>>),
       Stmt(create_db_query_2, <<AsIs(a.username), AsIs(a.username)>>) >>
create_user_database(a) ==
    Guard(create_user_database_checks(a), Returned(create_user_database_stmts(a)))

create_user_checks(a) == <<a.username>>
create_user(a) ==
    Guard(create_user_checks(a),
          LET role == << Stmt(create_user_query, <<AsIs(a.username), Bound(a.password)>>) >>
              made == create_user_database(a)
          IN  IF a.create_db
              THEN Ran(made.checked, role \o made.executed, made.outcome)
              ELSE Returned(role))

remove_user_checks(a) == <<a.username>>
remove_user(a) ==
    Guard(remove_user_checks(a),
          Returned(<< Stmt(remove_user_query, <<AsIs(a.username)>>) >>))

\* remove_database asks list_all_users first; a.all_users is its answer
list_all_users_stmts(user) == << Stmt(list_all_users_query, <<Bound(user)>>) >>
remove_database_checks(a) == <<a.database>>
\* the database dropped before the revokes
remove_database_drop_first(user, a) ==
    Guard(remove_database_checks(a),
          Returned(list_all_users_stmts(user)
                   \o << Stmt(drop_query, <<AsIs(a.database)>>) >>
                   \o [i \in 1..Len(a.all_users) |->
                          Stmt(revoke_query, <<AsIs(a.database), AsIs(a.all_users[i])>>)]))

remove_database(user, a) ==
    Guard(remove_database_checks(a),
          Returned(list_all_users_stmts(user)
                   \o [i \in 1..Len(a.all_users) |->
                          Stmt(revoke_query, <<AsIs(a.database), AsIs(a.all_users[i])>>)]
                   \o << Stmt(drop_query, <<AsIs(a.database)>>) >>))

change_password_checks(a) == <<a.username>>
change_password(a) ==
    Guard(change_password_checks(a),
          Returned(<< Stmt(change_password_query,
                           <<AsIs(a.username), Bound(a.password)>>) >>))

(***************************************************************************)
(* Free-form SQL, export and import                                        *)
(***************************************************************************)
\* the position of the first ";" piece, 0 when there is none
FirstSeparator(q) ==
    IF \E i \in 1..Len(q) : q[i] = Separator
    THEN CHOOSE i \in 1..Len(q) :
             q[i] = Separator /\ \A j \in 1..(i - 1) : q[j] # Separator
    ELSE 0

\* a cut that keeps the whole text
keep_whole_query(q) == q

\* query.split(';')[0]: the text before the first statement separator
text_before_semicolon(q) ==
    IF FirstSeparator(q) = 0 THEN q ELSE SubSeq(q, 1, FirstSeparator(q) - 1)

RECURSIVE lstrip(_)
lstrip(q) == IF q # <<>> /\ q[1] \in Whitespace THEN lstrip(Tail(q)) ELSE q
RECURSIVE rstrip(_)
rstrip(q) ==
    IF q # <<>> /\ q[Len(q)] \in Whitespace
    THEN rstrip(SubSeq(q, 1, Len(q) - 1))
    ELSE q
\* query.strip()
strip(q) == lstrip(rstrip(q))

\* an execute path that keeps only the first statement of its text
execute_sql_first_statement(stmt) ==
    Stmt(text_before_semicolon(strip(stmt.sql)), stmt.params)

\* execute_sql(query, params): what cursor.execute receives
execute_sql(stmt) == Stmt(strip(stmt.sql), stmt.params)

\* what the driver answers: the cursor's rowcount and fetchall(), or an error
Fetched(rowcount, rows) ==
    [ok |-> TRUE, rowcount |-> rowcount, rows |-> rows]
Failed(error) == [ok |-> FALSE, error |-> error]

\* a driver error is caught and returned
sql_failure(reply) == [status |-> FALSE, error |-> reply.error]

\* a result that keeps no rows
sql_success_no_rows(reply) ==
    [status |-> TRUE, row_count |-> 0, tuples |-> <<>>, fields |-> <<>>]

\* the rows and the row count of the cursor
sql_success(reply) ==
    [status |-> TRUE, row_count |-> reply.rowcount, tuples |-> reply.rows,
     fields |-> <<>>]

\* the record execute_sql returns
sql_result(reply) == IF reply.ok THEN sql_success(reply) ELSE sql_failure(reply)

\* mock_execute_sql.return_value
mock_result == sql_result(Fetched(-1, <<>>))

\* every statement handed to execute_sql, as the driver gets it
Driven(stmts) == [i \in 1..Len(stmts) |-> execute_sql(stmts[i])]

export_table_checks(a) == a.table_name \o <<a.file_format>>
export_table(a) ==
    Guard(export_table_checks(a),
          Returned(<< Stmt(export_table_query,
                           <<AsIs(a.table_name), Bound(a.file_path),
                             AsIs(a.file_format), AsIs(header_option(a.header)),
                             Bound(a.delimiter)>>) >>))

export_query_checks(a) == <<a.file_path, a.file_format>>
export_query(a) ==
    Guard(export_query_checks(a),
          Returned(<< Stmt(export_query_query,
                           <<AsIs(text_before_semicolon(a.query)), Bound(a.file_path),
                             AsIs(a.file_format), AsIs(header_option(a.header)),
                             Bound(a.delimiter)>>) >>))

import_file_checks(a) == a.table_name \o <<a.file_format, a.quote_character>>
import_file(a) ==
    Guard(import_file_checks(a),
          Returned(<< Stmt(import_file_query,
                           <<AsIs(a.table_name), Bound(a.file_path),
                             AsIs(a.file_format), AsIs(header_option(a.header)),
                             Bound(a.delimiter), Bound(a.encoding),
                             Bound(a.quote_character)>>) >>))

(***************************************************************************)
(* One backend call at a time on a PGBackend whose validator and           *)
(* execute_sql are the real ones; the state is what the last call left.    *)
(***************************************************************************)
BackendUser == "username"
Idents == {"good", "good_noun", "foo_", ";injection"}
PrivilegeLists ==
    { <<>>, <<"SELECT">>, <<"SELECT", "USAGE">>, <<"SELECT", "foo_">> }
TableNames ==
    { <<"user_name", "repo_name", "table_name">>, <<"table_name">>,
      <<"repo_name", "foo_">>, <<";injection", "table_name">> }
Passwords == {"p4 sS_W&*^;0Rd$_"}
ListedUsers == {"tweedledee", "tweedledum", "alice"}
UserLists ==
    { u \in UNION { [1..n -> ListedUsers] : n \in 0..MaxListedUsers } :
        \A i, j \in 1..Len(u) : i # j => u[i] # u[j] }
QueryPieces == {"a", "b", ";", " "}
\* ' text before semicolon; text after; '
passed_query == <<" text before semicolon", ";", " text after", ";", " ">>
Queries == UNION { [1..n -> QueryPieces] : n \in 0..MaxQueryLen } \cup {passed_query}
ParamTuples == { <<>>, <<Bound("param1"), Bound("param2")>> }
DriverErrors == {"constraint violation", "missing object", "permission denied"}
DriverReplies ==
    { Fetched(1000, "sometuples"), Fetched(0, <<>>), Fetched(-1, <<>>) }
    \cup { Failed(e) : e \in DriverErrors }

\* the call's record, once it has ended
Leaves(r) ==
    /\ outcome' = r.outcome
    /\ checked' = r.checked
    /\ executed' = r.executed
    /\ driver' = Driven(r.executed)
    /\ result' = IF r.executed = <<>> THEN NoResult ELSE mock_result
    /\ UNCHANGED <<validator_vars, db_vars>>

call_create_repo ==
    \E a \in [repo : Idents] :
        /\ call = NoCall
        /\ call' = [op |-> "create_repo", a |-> a]
        /\ Leaves(create_repo(BackendUser, a))
call_delete_repo ==
    \E a \in [repo : Idents, force : BOOLEAN] :
        /\ call = NoCall
        /\ call' = [op |-> "delete_repo", a |-> a]
        /\ Leaves(delete_repo(a))
call_add_collaborator ==
    \E a \in [repo : Idents, collaborator : Idents, privileges : PrivilegeLists] :
        /\ call = NoCall
        /\ call' = [op |-> "add_collaborator", a |-> a]
        /\ Leaves(add_collaborator(a))
call_delete_collaborator ==
    \E a \in [repo : Idents, collaborator : Idents] :
        /\ call = NoCall
        /\ call' = [op |-> "delete_collaborator", a |-> a]
        /\ Leaves(delete_collaborator(a))
call_list_tables ==
    \E a \in [repo : Idents, repos : {{}, {"good"}}] :
        /\ call = NoCall
        /\ call' = [op |-> "list_tables", a |-> a]
        /\ Leaves(list_tables(a))
call_list_views ==
    \E a \in [repo : Idents, repos : {{}, {"good"}}] :
        /\ call = NoCall
        /\ call' = [op |-> "list_views", a |-> a]
        /\ Leaves(list_views(a))
call_get_schema ==
    \E a \in [repo : Idents, table : Idents] :
        /\ call = NoCall
        /\ call' = [op |-> "get_schema", a |-> a]
        /\ Leaves(get_schema(a))
call_create_user ==
    \E a \in [username : Idents, password : Passwords, create_db : BOOLEAN] :
        /\ call = NoCall
        /\ call' = [op |-> "create_user", a |-> a]
        /\ Leaves(create_user(a))
call_create_user_database ==
    \E a \in [username : Idents] :
        /\ call = NoCall
        /\ call' = [op |-> "create_user_database", a |-> a]
        /\ Leaves(create_user_database(a))
call_remove_user ==
    \E a \in [username : Idents] :
        /\ call = NoCall
        /\ call' = [op |-> "remove_user", a |-> a]
        /\ Leaves(remove_user(a))
call_remove_database ==
    \E a \in [database : Idents, all_users : UserLists] :
        /\ call = NoCall
        /\ call' = [op |-> "remove_database", a |-> a]
        /\ Leaves(remove_database(BackendUser, a))
call_change_password ==
    \E a \in [username : Idents, password : Passwords] :
        /\ call = NoCall
        /\ call' = [op |-> "change_password", a |-> a]
        /\ Leaves(change_password(a))
call_export_table ==
    \E a \in [table_name : TableNames, file_path : {"file_path"},
              file_format : {"CSV", "foo_"}, delimiter : {","}, header : BOOLEAN] :
        /\ call = NoCall
        /\ call' = [op |-> "export_table", a |-> a]
        /\ Leaves(export_table(a))
call_export_query ==
    \E a \in [query : Queries, file_path : {"file_path", ";injection"},
              file_format : {"CSV", "foo_"}, delimiter : {","}, header : BOOLEAN] :
        /\ call = NoCall
        /\ call' = [op |-> "export_query", a |-> a]
        /\ Leaves(export_query(a))
call_import_file ==
    \E a \in [table_name : TableNames, file_path : {"file_path", ";injection"},
              file_format : {"CSV", "foo_"}, delimiter : {","}, header : BOOLEAN,
              encoding : {"ISO-8859-1"}, quote_character : {"\"", "good"}] :
        /\ call = NoCall
        /\ call' = [op |-> "import_file", a |-> a]
        /\ Leaves(import_file(a))
call_execute_sql ==
    \E a \in [query : Queries, params : ParamTuples], reply \in DriverReplies :
        /\ call = NoCall
        /\ call' = [op |-> "execute_sql", a |-> a, reply |-> reply]
        /\ checked' = <<>>
        /\ executed' = << Stmt(a.query, a.params) >>
        /\ driver' = Driven(executed')
        /\ result' = sql_result(reply)
        /\ outcome' = "returned"
        /\ UNCHANGED <<validator_vars, db_vars>>

CallInit == ValidatorIdle /\ CallIdle /\ DbIdle

CallNext ==
    \/ call_create_repo
    \/ call_delete_repo
    \/ call_add_collaborator
    \/ call_delete_collaborator
    \/ call_list_tables
    \/ call_list_views
    \/ call_get_schema
    \/ call_create_user
    \/ call_create_user_database
    \/ call_remove_user
    \/ call_remove_database
    \/ call_change_password
    \/ call_export_table
    \/ call_export_query
    \/ call_import_file
    \/ call_execute_sql

SpecCall == CallInit /\ [][CallNext]_vars

(***************************************************************************)
(* The server's reading of the statements it is sent.  A statement text is  *)
(* cut at its separators and each statement takes its parameters in order.  *)
(***************************************************************************)
\* the statements the server is sent here, as it reads them
Sql ==
    [create_schema |-> "CREATE SCHEMA %s AUTHORIZATION %s",
     create_schema_if_not_exists |-> "CREATE SCHEMA IF NOT EXISTS %s AUTHORIZATION %s",
     drop_schema |-> "DROP SCHEMA %s %s",
     grant_usage |-> "GRANT USAGE ON SCHEMA %s TO %s",
     grant_tables |-> "GRANT %s ON ALL TABLES IN SCHEMA %s TO %s",
     grant_defaults |-> "ALTER DEFAULT PRIVILEGES IN SCHEMA %s GRANT %s ON TABLES TO %s",
     revoke_tables |-> "REVOKE ALL ON ALL TABLES IN SCHEMA %s FROM %s CASCADE",
     revoke_schema |-> "REVOKE ALL ON SCHEMA %s FROM %s CASCADE",
     revoke_defaults |-> "ALTER DEFAULT PRIVILEGES IN SCHEMA %s REVOKE ALL ON TABLES FROM %s"]

Placeholders ==
    "BEGIN" :> 0 @@ "COMMIT" :> 0
    @@ Sql.grant_usage :> 2 @@ Sql.grant_tables :> 3 @@ Sql.grant_defaults :> 3
    @@ Sql.revoke_tables :> 2 @@ Sql.revoke_schema :> 2 @@ Sql.revoke_defaults :> 2
    @@ Sql.create_schema_if_not_exists :> 2 @@ Sql.create_schema :> 2
    @@ Sql.drop_schema :> 2

RECURSIVE Statements(_, _)
\* the statements of a text, each with the parameter values it consumes
Statements(pieces, values) ==
    IF pieces = <<>> THEN <<>>
    ELSE IF Head(pieces) \in {Separator} \cup Whitespace
    THEN Statements(Tail(pieces), values)
    ELSE LET n == Placeholders[Head(pieces)]
         IN  << [text |-> Head(pieces), args |-> SubSeq(values, 1, n)] >>
             \o Statements(Tail(pieces), SubSeq(values, n + 1, Len(values)))

\* privileges a table can carry; any other word is refused by GRANT ... ON
\* ALL TABLES
TablePrivileges ==
    {"SELECT", "INSERT", "UPDATE", "DELETE", "TRUNCATE", "REFERENCES", "TRIGGER"}

\* the privilege lists callers pass
GrantLists ==
    { <<"SELECT">>, <<"INSERT", "UPDATE">>, <<"SELECT", "INSERT", "UPDATE">>,
      <<"USAGE">> }

\* the words of a comma-separated privilege list
privilege_words(text) ==
    IF \E l \in GrantLists : Join(l, ", ") = text
    THEN Range(CHOOSE l \in GrantLists : Join(l, ", ") = text)
    ELSE {text}

Exists(d, n) == n \in DOMAIN d /\ d[n] # Absent
\* the schema's owner and the server's own user may alter it
MayAlter(user, d, n) ==
    Exists(d, n) /\ (d[n].owner = user \/ user = settings_user)

Refused(d) == [ok |-> FALSE, db |-> d]
Done(d) == [ok |-> TRUE, db |-> d]

\* an access-control list is written out, owner's entry first, by the first
\* GRANT or REVOKE on the schema
WithOwner(sch) == [sch.nspacl EXCEPT ![sch.owner] = {"U", "C"}]

\* one statement st run by user on the database d
Exec(st, user, d) ==
    LET t == st.text
        x == st.args
    IN  CASE t = Sql.grant_usage ->
               IF MayAlter(user, d, x[1]) /\ x[2] \in Roles
               THEN Done([d EXCEPT ![x[1]].nspacl =
                            [WithOwner(d[x[1]]) EXCEPT ![x[2]] = @ \cup {"U"}]])
               ELSE Refused(d)
          [] t = Sql.grant_tables ->
               IF /\ MayAlter(user, d, x[2])
                  /\ x[3] \in Roles
                  /\ privilege_words(x[1]) \subseteq TablePrivileges
               THEN Done([d EXCEPT ![x[2]].tables[x[3]] = @ \cup privilege_words(x[1])])
               ELSE Refused(d)
          [] t = Sql.grant_defaults ->
               IF /\ MayAlter(user, d, x[1])
                  /\ x[3] \in Roles
                  /\ privilege_words(x[2]) \subseteq TablePrivileges
               THEN Done([d EXCEPT ![x[1]].defaults[x[3]] = @ \cup privilege_words(x[2])])
               ELSE Refused(d)
          [] t = Sql.revoke_tables ->
               IF MayAlter(user, d, x[1]) /\ x[2] \in Roles
               THEN Done([d EXCEPT ![x[1]].tables[x[2]] = {}])
               ELSE Refused(d)
          [] t = Sql.revoke_schema ->
               IF MayAlter(user, d, x[1]) /\ x[2] \in Roles
               THEN Done([d EXCEPT ![x[1]].nspacl =
                            [WithOwner(d[x[1]]) EXCEPT ![x[2]] = {}]])
               ELSE Refused(d)
          [] t = Sql.revoke_defaults ->
               IF MayAlter(user, d, x[1]) /\ x[2] \in Roles
               THEN Done([d EXCEPT ![x[1]].defaults[x[2]] = {}])
               ELSE Refused(d)
          [] t = Sql.create_schema_if_not_exists ->
               IF Exists(d, x[1]) THEN Done(d)
               ELSE IF x[1] \in DOMAIN d /\ x[2] \in Roles
                       /\ (x[2] = user \/ user = settings_user)
               THEN Done([d EXCEPT ![x[1]] = Schema(x[2])])
               ELSE Refused(d)
          [] t = Sql.create_schema ->
               IF x[1] \in DOMAIN d /\ ~Exists(d, x[1]) /\ x[2] \in Roles
                  /\ (x[2] = user \/ user = settings_user)
               THEN Done([d EXCEPT ![x[1]] = Schema(x[2])])
               ELSE Refused(d)
          [] t = Sql.drop_schema ->
\* CASCADE drops the schema with what is in it; without a qualifier only an
\* empty schema is dropped; any other word (NULL) is a syntax error
               IF /\ MayAlter(user, d, x[1])
                  /\ \/ x[2] = "CASCADE"
                     \/ x[2] \in {"", "RESTRICT"} /\ d[x[1]].relations = {}
               THEN Done([d EXCEPT ![x[1]] = Absent])
               ELSE Refused(d)
          [] OTHER -> Refused(d)

(***************************************************************************)
(* Collaborators of one repo.  CollaboratorSerializer("alice", "alice")    *)
(* grants and revokes on alice's repo "repo"; the server runs the          *)
(* statements of the call one at a time, and a manager on another          *)
(* connection reads in between.                                            *)
(***************************************************************************)
RepoOwner == "alice"
SharedRepo == "repo"
Collaborators == {"bob", "foo_"}

\* the server once RepoOwner has created SharedRepo
ServerWithRepo ==
    LET made == create_repo(RepoOwner, [repo |-> SharedRepo]).executed[1]
    IN  [NewServer EXCEPT ![RepoOwner] =
            Exec(Statements(made.sql, Values(made.params))[1], RepoOwner, @).db]

Closed(before, ran) == [state |-> "closed", before |-> before, ran |-> ran]

\* the connection once the driver has been handed the call's statement text
Open(user, base, stmts) ==
    [state |-> "open", user |-> user, base |-> base,
     todo |-> Statements(stmts[1].sql, Values(stmts[1].params)),
     work |-> db[base], in_tx |-> FALSE, before |-> db[base], ran |-> 0]

\* a call of the manager (user, base): validation, then the statement text
\* goes to the server
Starts(r, user, base) ==
    /\ session.state # "open"
    /\ checked' = r.checked
    /\ executed' = r.executed
    /\ driver' = Driven(r.executed)
    /\ result' = NoResult
    /\ IF r.outcome = "returned"
       THEN /\ outcome' = "running"
            /\ session' = Open(user, base, Driven(r.executed))
       ELSE /\ outcome' = r.outcome
            /\ session' = Closed(db[base], 0)
    /\ UNCHANGED <<validator_vars, db, obs, web>>

serializer_add_collaborator ==
    \E a \in [repo : {SharedRepo}, collaborator : Collaborators,
              privileges : GrantLists] :
        /\ call' = [op |-> "add_collaborator", a |-> a]
        /\ Starts(add_collaborator(a), RepoOwner, RepoOwner)

serializer_remove_collaborator ==
    \E a \in [repo : {SharedRepo}, collaborator : Collaborators] :
        /\ call' = [op |-> "delete_collaborator", a |-> a]
        /\ Starts(delete_collaborator(a), RepoOwner, RepoOwner)

\* the connection after a statement: the call returns with the last one
Next_(sess) ==
    IF sess.todo = <<>> THEN Closed(sess.before, sess.ran) ELSE sess
Ends(sess) == IF sess.todo = <<>> THEN "returned" ELSE "running"
Gives(sess) == IF sess.todo = <<>> THEN sql_result(Fetched(-1, <<>>)) ELSE result

Running == session.state = "open" /\ session.todo # <<>>

server_begin ==
    /\ Running
    /\ Head(session.todo).text = "BEGIN"
    /\ LET sess == [session EXCEPT !.todo = Tail(@), !.in_tx = TRUE,
                                   !.work = db[session.base]]
       IN  session' = Next_(sess) /\ outcome' = Ends(sess) /\ result' = Gives(sess)
    /\ UNCHANGED <<validator_vars, call, checked, executed, driver, db, obs, web>>

\* a statement outside BEGIN ... COMMIT is committed as it is run
server_statement ==
    /\ Running
    /\ Head(session.todo).text \notin {"BEGIN", "COMMIT"}
    /\ LET r == Exec(Head(session.todo), session.user, session.work)
           sess == [session EXCEPT !.todo = Tail(@), !.work = r.db,
                                   !.ran = @ + 1]
       IN  /\ r.ok
           /\ session' = Next_(sess)
           /\ outcome' = Ends(sess)
           /\ result' = Gives(sess)
           /\ db' = IF session.in_tx THEN db
                    ELSE [db EXCEPT ![session.base] = r.db]
    /\ UNCHANGED <<validator_vars, call, checked, executed, driver, obs, web>>

server_commit ==
    /\ Running
    /\ Head(session.todo).text = "COMMIT"
    /\ LET sess == [session EXCEPT !.todo = Tail(@), !.in_tx = FALSE]
       IN  /\ session' = Next_(sess)
           /\ outcome' = Ends(sess)
           /\ result' = Gives(sess)
           /\ db' = IF session.in_tx
                    THEN [db EXCEPT ![session.base] = session.work]
                    ELSE db
    /\ UNCHANGED <<validator_vars, call, checked, executed, driver, obs, web>>

\* the statement in hand fails: the server refuses it, or the connection is
\* lost.  What the open transaction did is rolled back and the call fails.
server_abort ==
    /\ Running
    /\ \E lost \in BOOLEAN :
           \/ lost
           \/ /\ Head(session.todo).text \notin {"BEGIN", "COMMIT"}
              /\ ~Exec(Head(session.todo), session.user, session.work).ok
    /\ session' = Closed(session.before, session.ran)
    /\ outcome' = "ExecutionFailure"
    /\ result' = sql_result(Failed("statement failed"))
    /\ UNCHANGED <<validator_vars, call, checked, executed, driver, db, obs, web>>

\* --- the reads of a manager on another connection ---------------------
RoleOrder == <<"alice", "bob", "postgres">>
Letters(set) ==
    IF set = {"U", "C"} THEN "UC" ELSE IF set = {"U"} THEN "U"
    ELSE IF set = {"C"} THEN "C" ELSE ""

\* unnest(nspacl): one row "<grantee>=<letters>/<grantor>" per entry
RECURSIVE nspacl_rows(_, _)
nspacl_rows(sch, roles) ==
    IF roles = <<>> THEN <<>>
    ELSE (IF sch.nspacl[Head(roles)] = {} THEN <<>>
          ELSE << <<Head(roles), "=", Letters(sch.nspacl[Head(roles)]), "/",
                    sch.owner>> >>)
         \o nspacl_rows(sch, Tail(roles))

\* the grantor (after "/") taken for the username
acl_entry_grantor(row) ==
    LET eq == CHOOSE i \in 1..Len(row) : row[i] = "="
    IN  [username |-> row[Len(row)], permissions |-> row[eq + 1]]

\* list_collaborators: each row split at "=" and "/"
acl_entry(row) ==
    LET eq == CHOOSE i \in 1..Len(row) : row[i] = "="
    IN  [username |-> IF eq = 1 THEN "" ELSE row[eq - 1],
         permissions |-> IF row[eq + 1] = "/" THEN "" ELSE row[eq + 1]]

\* the rows of named grantees only
acl_entries_named_only(rows) ==
    LET named == SelectSeq(rows, LAMBDA row : row[1] # "=")
    IN  [i \in 1..Len(named) |-> acl_entry(named[i])]

\* one record per row, in the rows' order
acl_entries(rows) == [i \in 1..Len(rows) |-> acl_entry(rows[i])]

list_collaborators_stmts(repo) ==
    << Stmt(list_collaborators_query, <<Bound(repo)>>) >>
list_collaborators(d, repo) ==
    IF Exists(d, repo)
    THEN acl_entries(nspacl_rows(d[repo], RoleOrder))
    ELSE <<>>

SchemaLetter == "USAGE" :> "U" @@ "CREATE" :> "C"
has_repo_privilege(d, login, repo, privilege) ==
    /\ Exists(d, repo)
    /\ \/ d[repo].owner = login
       \/ SchemaLetter[privilege] \in d[repo].nspacl[login]

\* table names the one table of the repo
has_table_privilege(d, login, repo, privilege) ==
    /\ Exists(d, repo)
    /\ \/ d[repo].owner = login
       \/ privilege \in d[repo].tables[login]

\* a read, with the grants it was answered from and the call then running
Observation(op, stmts, answer) ==
    [op |-> op, stmts |-> stmts, result |-> answer,
     seen |-> db[RepoOwner][SharedRepo],
     during |-> IF session.state = "open" THEN call ELSE NoCall,
     ran |-> IF session.state = "open" THEN session.ran ELSE 0,
     before |-> IF session.state = "open"
                THEN session.before[SharedRepo]
                ELSE db[RepoOwner][SharedRepo]]

read_list_collaborators ==
    /\ obs' = Observation("list_collaborators",
                          list_collaborators_stmts(SharedRepo),
                          list_collaborators(db[RepoOwner], SharedRepo))
    /\ UNCHANGED <<validator_vars, call_vars, db, session, web>>

read_has_repo_privilege ==
    \E login \in {"bob"}, privilege \in {"USAGE"} :
        /\ obs' = Observation("has_repo_privilege",
                      << Stmt(<<"SELECT has_schema_privilege(%s, %s, %s)", ";">>,
                              <<Bound(login), Bound(SharedRepo), Bound(privilege)>>) >>,
                      has_repo_privilege(db[RepoOwner], login, SharedRepo, privilege))
        /\ UNCHANGED <<validator_vars, call_vars, db, session, web>>

read_has_table_privilege ==
    \E login \in {"bob"}, privilege \in {"SELECT", "UPDATE"} :
        /\ obs' = Observation("has_table_privilege",
                      << Stmt(<<"SELECT has_table_privilege(%s, %s, %s)", ";">>,
                              <<Bound(login), Bound("table"), Bound(privilege)>>) >>,
                      has_table_privilege(db[RepoOwner], login, SharedRepo, privilege))
        /\ UNCHANGED <<validator_vars, call_vars, db, session, web>>

GrantsInit ==
    /\ ValidatorIdle
    /\ CallIdle
    /\ db = ServerWithRepo
    /\ session = NoSession
    /\ obs = NoObs
    /\ web = NoRequest

GrantsNext ==
    \/ serializer_add_collaborator
    \/ serializer_remove_collaborator
    \/ server_begin
    \/ server_statement
    \/ server_commit
    \/ server_abort
    \/ read_list_collaborators
    \/ read_has_repo_privilege
    \/ read_has_table_privilege

SpecGrants == GrantsInit /\ [][GrantsNext]_vars

(***************************************************************************)
(* Repos over the web: repo_create, repo_delete and user of                *)
(* browser/views.py.  Each request builds DataHubManager(user=username,    *)
(* repo_base=repo_base); a call's one statement is run when it is sent.    *)
(***************************************************************************)
Visitors == Bases
RepoNames == SchemaNames \cup {"foo_"}
SchemaOrder == <<"public", "repo">>

\* information_schema.schemata WHERE schema_owner != %s, as user sees it: the
\* schemas user owns or holds a privilege on
RECURSIVE schemata_rows(_, _, _, _)
schemata_rows(d, user, not_owner, names) ==
    IF names = <<>> THEN <<>>
    ELSE (IF /\ Exists(d, Head(names))
             /\ d[Head(names)].owner # not_owner
             /\ (d[Head(names)].owner = user \/ d[Head(names)].nspacl[user] # {})
          THEN << <<Head(names)>> >> ELSE <<>>)
         \o schemata_rows(d, user, not_owner, Tail(names))

\* list_repos: the first column of each row
list_repos(d, user) ==
    LET tuples == schemata_rows(d, user, Values(list_repos_stmts[1].params)[1],
                                SchemaOrder)
    IN  [i \in 1..Len(tuples) |-> tuples[i][1]]

\* what the call leaves once the server has run its statement
Runs(r, user, base) ==
    LET sent == Driven(r.executed)
        res == Exec(Statements(sent[1].sql, Values(sent[1].params))[1],
                    user, db[base])
    IN  /\ checked' = r.checked
        /\ executed' = r.executed
        /\ driver' = sent
        /\ IF r.outcome = "returned"
           THEN /\ outcome' = IF res.ok THEN "returned" ELSE "ExecutionFailure"
                /\ result' = sql_result(IF res.ok THEN Fetched(-1, <<>>)
                                         ELSE Failed("permission denied"))
                /\ db' = [db EXCEPT ![base] = res.db]
           ELSE /\ outcome' = r.outcome
                /\ result' = NoResult
                /\ db' = db

NotCalled ==
    /\ call' = NoCall
    /\ outcome' = "pending"
    /\ checked' = <<>>
    /\ executed' = <<>>
    /\ driver' = <<>>
    /\ result' = NoResult
    /\ db' = db

LastRequest ==
    IF web = NoRequest THEN NoRequest
    ELSE [view |-> web.view, user |-> web.user, base |-> web.base,
          repo |-> web.repo, response |-> web.response]
Request(view, method, username, repo_base, repo, response) ==
    [view |-> view, method |-> method, user |-> username, base |-> repo_base,
     repo |-> repo, response |-> response, before |-> db, prev |-> LastRequest]

\* an exception of the manager leaves the view; a result is not looked at
Response(how, done) == IF how = "ValueError" THEN "error" ELSE done

repo_create ==
    \E username \in Visitors, repo_base \in Bases, method \in {"POST", "GET"},
       repo \in RepoNames :
        /\ IF username # repo_base
           THEN /\ NotCalled
                /\ web' = Request("repo_create", method, username, repo_base,
                                  repo, "forbidden")
           ELSE IF method = "POST"
           THEN /\ call' = [op |-> "create_repo", a |-> [repo |-> repo],
                            user |-> username, base |-> repo_base]
                /\ Runs(create_repo(username, [repo |-> repo]), username, repo_base)
                /\ web' = Request("repo_create", method, username, repo_base,
                                  repo, Response(outcome', "redirect"))
           ELSE /\ NotCalled
                /\ web' = Request("repo_create", method, username, repo_base,
                                  repo, "form")
        /\ UNCHANGED <<validator_vars, session, obs>>

repo_delete ==
    \E username \in Visitors, repo_base \in Bases, repo \in RepoNames :
        LET a == [repo |-> repo, force |-> TRUE]
        IN  /\ call' = [op |-> "delete_repo", a |-> a,
                        user |-> username, base |-> repo_base]
            /\ Runs(delete_repo(a), username, repo_base)
            /\ web' = Request("repo_delete", "GET", username, repo_base, repo,
                              Response(outcome', "redirect"))
            /\ UNCHANGED <<validator_vars, session, obs>>

\* one entry of visible_repos: the repo with the usernames of its
\* collaborators, the empty one and the owner's left out
visible_repo(repo, repo_base, entries) ==
    LET names == [i \in 1..Len(entries) |-> entries[i].username]
        collaborators == SelectSeq(names, LAMBDA x : x # "" /\ x # repo_base)
    IN  [name |-> repo, owner |-> repo_base,
         public |-> "PUBLIC" \in Range(collaborators),
         collaborators |-> collaborators]

\* views.user, the browse page of a repo base: its repos, each with its
\* collaborators
user_page ==
    \E username \in Visitors, repo_base \in Bases :
        LET repos == list_repos(db[repo_base], username)
            shown(repo) ==
                visible_repo(repo, repo_base,
                             list_collaborators(db[repo_base], repo))
        IN  /\ obs' = [op |-> "user", login |-> username, repo_base |-> repo_base,
                       listed |-> repos,
                       repos |-> [i \in 1..Len(repos) |-> shown(repos[i])]]
            /\ UNCHANGED <<validator_vars, call_vars, db, session, web>>

ReposInit == ValidatorIdle /\ CallIdle /\ DbIdle

ReposNext ==
    \/ repo_create
    \/ repo_delete
    \/ user_page

SpecRepos == ReposInit /\ [][ReposNext]_vars

(***************************************************************************)
(* Pagination: DataHubManager.paginate_query, called on its own and by the *)
(* browser's table, query and card views.  A page of rows is the set of    *)
(* the positions of its rows in the whole result.                          *)
(***************************************************************************)
\* the page size the views ask for
rows_per_page == 50
\* the row count of the documented example
example_num_rows == 237
\* pages shown on each side of the current one
window_span == 5

RowCounts == 0..MaxRows \cup {example_num_rows}
PageSizes == 1..MaxRowsPerPage \cup {rows_per_page}
PageNumbers == -1..MaxPage

Min(x, y) == IF x < y THEN x ELSE y
Max(x, y) == IF x > y THEN x ELSE y

\* one page more than the full pages
full_pages_plus_one(n, d) == 1 + (n \div d)

\* ceil(n / d)
ceil_div(n, d) == (n + d - 1) \div d

clamp_page(current_page, total_pages) == Max(1, Min(current_page, total_pages))

page_rows(num_rows, page, per_page) ==
    Max((page - 1) * per_page + 1, 1)..Min(page * per_page, num_rows)

paginate_query(num_rows, current_page, per_page) ==
    LET total_pages == ceil_div(num_rows, per_page)
        page == clamp_page(current_page, total_pages)
    IN  [rows |-> page_rows(num_rows, page, per_page),
         total_pages |-> total_pages,
         start_page |-> Max(1, page - window_span),
         end_page |-> Min(total_pages, page + window_span),
         num_rows |-> num_rows,
         select_query |-> TRUE]

\* Python values of a page number: the int n, and the text of n that
\* request.POST carries
PyInt(n) == [type |-> "int", n |-> n]
PyStr(n) == [type |-> "str", n |-> n]
NoPage == [type |-> "none"]
PostedPages == {NoPage} \cup { PyStr(n) : n \in PageNumbers }

\* current_page = 1; if request.POST.get('page'): current_page = that text
requested_page(posted) == IF posted = NoPage THEN PyInt(1) ELSE posted

\* the data a view hands its template; current_page + 1 on a text raises
page_data(current_page, res) ==
    IF current_page.type # "int"
    THEN [raised |-> "TypeError"]
    ELSE [current_page |-> current_page.n,
          next_page |-> current_page.n + 1,
          prev_page |-> current_page.n - 1,
          tuples |-> res.rows,
          total_pages |-> res.total_pages,
          pages |-> res.start_page..res.end_page,
          num_rows |-> res.num_rows]

PageCall(current_page, per_page, num_rows) ==
    [op |-> "paginate_query",
     a |-> [current_page |-> current_page, rows_per_page |-> per_page],
     num_rows |-> num_rows]

PageRequest(view, posted, data) ==
    [view |-> view, posted |-> posted, response |-> data]

call_paginate_query ==
    \E num_rows \in RowCounts, n \in PageNumbers, per_page \in PageSizes :
        /\ call' = PageCall(PyInt(n), per_page, num_rows)
        /\ result' = paginate_query(num_rows, n, per_page)
        /\ outcome' = "returned"
        /\ web' = NoRequest
        /\ UNCHANGED <<validator_vars, checked, executed, driver, db, session, obs>>

table ==
    \E posted \in PostedPages, num_rows \in RowCounts :
        LET current_page == requested_page(posted)
            res == paginate_query(num_rows, current_page.n, rows_per_page)
        IN  /\ call' = PageCall(current_page, rows_per_page, num_rows)
            /\ result' = res
            /\ web' = PageRequest("table", posted, page_data(current_page, res))
            /\ outcome' = IF "raised" \in DOMAIN web'.response
                          THEN "TypeError" ELSE "returned"
            /\ UNCHANGED <<validator_vars, checked, executed, driver, db, session, obs>>

query ==
    \E q \in {"", "q"}, posted \in PostedPages, num_rows \in RowCounts :
        LET current_page == requested_page(posted)
            res == paginate_query(num_rows, current_page.n, rows_per_page)
        IN  /\ IF q = ""
               THEN /\ call' = NoCall
                    /\ result' = NoResult
                    /\ web' = PageRequest("query", posted, [select_query |-> FALSE])
                    /\ outcome' = "pending"
               ELSE /\ call' = PageCall(current_page, rows_per_page, num_rows)
                    /\ result' = res
                    /\ web' = PageRequest("query", posted, page_data(current_page, res))
                    /\ outcome' = IF "raised" \in DOMAIN web'.response
                                  THEN "TypeError" ELSE "returned"
            /\ UNCHANGED <<validator_vars, checked, executed, driver, db, session, obs>>

card ==
    \E posted \in PostedPages, num_rows \in RowCounts :
        LET current_page == requested_page(posted)
            res == paginate_query(num_rows, current_page.n, rows_per_page)
        IN  /\ call' = PageCall(current_page, rows_per_page, num_rows)
            /\ result' = res
            /\ web' = PageRequest("card", posted, page_data(current_page, res))
            /\ outcome' = IF "raised" \in DOMAIN web'.response
                          THEN "TypeError" ELSE "returned"
            /\ UNCHANGED <<validator_vars, checked, executed, driver, db, session, obs>>

PagesInit == ValidatorIdle /\ CallIdle /\ DbIdle

PagesNext ==
    \/ call_paginate_query
    \/ table
    \/ query
    \/ card

SpecPages == PagesInit /\ [][PagesNext]_vars

(***************************************************************************)
(* Manager instances.  Each request constructs its own DataHubManager,     *)
(* whose backend connects when it is constructed; the managers then call   *)
(* create_repo, and the server takes each CREATE SCHEMA in two steps, the  *)
(* lookup of the name and the insertion into the catalog, so that the      *)
(* statements of two connections can overlap.  Here session is the list    *)
(* of connections the server has accepted, call, outcome and result are    *)
(* per manager, driver lists the statements sent with their connection     *)
(* and obs lists what the server did with each.                            *)
(***************************************************************************)
Managers == {"m1", "m2"}
RepoChoices == {"repo", "foo_"}

NotConstructed ==
    [pc |-> "none", conn |-> 0, user |-> "", base |-> "", repo |-> "",
     found |-> FALSE, did |-> "none", calls |-> 0]

\* psycopg2.connect, called by the backend's constructor
connect(conns, m, user, base) ==
    Append(conns, [manager |-> m, user |-> user, base |-> base])

\* a call that connects again
call_reconnects(conns, mgr, m) == connect(conns, m, mgr.user, mgr.base)

\* the connections after a call of manager m: it uses the one it holds
call_connections(conns, mgr, m) == conns

\* an insertion that does not look at the catalog's unique index
catalog_insert_unchecked(st, user, d) ==
    Exec([st EXCEPT !.text = Sql.create_schema], user,
         [d EXCEPT ![st.args[1]] = Absent])

\* the insertion of the schema's row: the unique index on the name refuses
\* a second row
catalog_insert(st, user, d) ==
    IF Exists(d, st.args[1])
    THEN Refused(d)
    ELSE Exec([st EXCEPT !.text = Sql.create_schema], user, d)

DataHubManager ==
    \E m \in Managers, username \in Bases, repo_base \in Bases :
        /\ call[m].pc = "none"
        /\ session' = connect(session, m, username, repo_base)
        /\ call' = [call EXCEPT ![m] =
                       [@ EXCEPT !.pc = "ready", !.conn = Len(session'),
                                 !.user = username, !.base = repo_base]]
        /\ UNCHANGED <<validator_vars, outcome, checked, executed, driver,
                       result, db, obs, web>>

manager_create_repo ==
    \E m \in Managers, repo \in RepoChoices :
        LET mgr == call[m]
            r == create_repo(mgr.user, [repo |-> repo])
        IN  /\ mgr.pc = "ready"
            /\ mgr.calls < MaxCalls
            /\ session' = call_connections(session, mgr, m)
            /\ IF r.outcome = "returned"
               THEN /\ call' = [call EXCEPT ![m] =
                                   [@ EXCEPT !.pc = "sent", !.repo = repo,
                                             !.did = "none", !.calls = @ + 1]]
                    /\ driver' = Append(driver, [conn |-> mgr.conn, manager |-> m,
                                                 stmt |-> r.executed[1]])
                    /\ outcome' = [outcome EXCEPT ![m] = "pending"]
               ELSE /\ call' = [call EXCEPT ![m] =
                                   [@ EXCEPT !.repo = repo, !.did = "none",
                                             !.calls = @ + 1]]
                    /\ driver' = driver
                    /\ outcome' = [outcome EXCEPT ![m] = r.outcome]
            /\ result' = [result EXCEPT ![m] = NoResult]
            /\ UNCHANGED <<validator_vars, checked, executed, db, obs, web>>

\* the statement manager m has at the server
Sent(m) ==
    LET stmt == (CHOOSE i \in DOMAIN driver :
                    /\ driver[i].manager = m
                    /\ \A j \in DOMAIN driver : driver[j].manager = m => j <= i)
        sent == driver[stmt].stmt
    IN  Statements(sent.sql, Values(sent.params))[1]

server_lookup ==
    \E m \in Managers :
        /\ call[m].pc = "sent"
        /\ call' = [call EXCEPT ![m] =
                       [@ EXCEPT !.pc = "looked",
                                 !.found = Exists(db[call[m].base], call[m].repo)]]
        /\ UNCHANGED <<validator_vars, outcome, checked, executed, driver,
                       result, db, session, obs, web>>

server_insert ==
    \E m \in Managers :
        LET mgr == call[m]
            st == Sent(m)
            skips == mgr.found /\ st.text = Sql.create_schema_if_not_exists
            res == IF skips THEN Done(db[mgr.base])
                   ELSE catalog_insert(st, mgr.user, db[mgr.base])
            did == IF skips THEN "skipped"
                   ELSE IF res.ok THEN "created" ELSE "conflict"
        IN  /\ mgr.pc = "looked"
            /\ db' = [db EXCEPT ![mgr.base] = res.db]
            /\ call' = [call EXCEPT ![m] = [@ EXCEPT !.pc = "ready", !.did = did]]
            /\ result' = [result EXCEPT ![m] =
                             sql_result(IF res.ok THEN Fetched(-1, <<>>)
                                        ELSE Failed("constraint violation"))]
            /\ outcome' = [outcome EXCEPT ![m] = "returned"]
            /\ obs' = Append(obs, [manager |-> m, base |-> mgr.base,
                                   repo |-> mgr.repo, did |-> did])
            /\ UNCHANGED <<validator_vars, checked, executed, driver, session, web>>

ManagersInit ==
    /\ ValidatorIdle
    /\ call = [m \in Managers |-> NotConstructed]
    /\ outcome = [m \in Managers |-> "pending"]
    /\ result = [m \in Managers |-> NoResult]
    /\ checked = <<>>
    /\ executed = <<>>
    /\ driver = <<>>
    /\ db = NewServer
    /\ session = <<>>
    /\ obs = <<>>
    /\ web = NoRequest

ManagersNext ==
    \/ DataHubManager
    \/ manager_create_repo
    \/ server_lookup
    \/ server_insert

SpecManagers == ManagersInit /\ [][ManagersNext]_vars

(***************************************************************************)
(* list_collaborators on the rows the server may answer with: a row is     *)
(* the pieces of "<grantee>=<letters>/<grantor>", the grantee missing for  *)
(* a grant to everyone.                                                    *)
(***************************************************************************)
AclRows ==
    { <<"al_carter", "=", "UC", "/", "al_carter">>,
      <<"foo_bar", "=", "U", "/", "al_carter">>,
      <<"=", "U", "/", "al_carter">>,
      <<"=", "UC", "/", "foo_bar">>,
      <<"foo_bar", "=", "/", "al_carter">>,
      <<"al_carter", "=", "C", "/", "foo_bar">> }
AclAnswers == UNION { [1..n -> AclRows] : n \in 0..MaxAclRows }

call_list_collaborators ==
    \E repo \in {"repo_name"}, rows \in AclAnswers :
        /\ obs' = [op |-> "list_collaborators", repo |-> repo, rows |-> rows,
                   stmts |-> list_collaborators_stmts(repo),
                   result |-> acl_entries(rows)]
        /\ UNCHANGED <<validator_vars, call_vars, db, session, web>>

AclInit == ValidatorIdle /\ CallIdle /\ DbIdle

SpecAcl == AclInit /\ [][call_list_collaborators]_vars

\* views.user for a repo base whose one repo has these rows as its list
user_repo ==
    \E repo_base \in {"al_carter", "foo_bar"}, rows \in AclAnswers :
        /\ web' = [view |-> "user", base |-> repo_base, repo |-> "repo_name",
                   rows |-> rows,
                   entry |-> visible_repo("repo_name", repo_base,
                                          acl_entries(rows))]
        /\ UNCHANGED <<validator_vars, call_vars, db, session, obs>>

SpecUser == AclInit /\ [][user_repo]_vars

(***************************************************************************)
(* Deleting and browsing a repo that holds tables.  alice owns the repo    *)
(* "repo"; its owner creates tables in it, managers of alice's repo base   *)
(* call delete_repo with and without force, and visitors open the          *)
(* repo_tables page of browser/views.py.                                   *)
(***************************************************************************)
TableChoices == {"t1", "t2"}

\* CREATE TABLE <repo>.<table>, sent by the owner as free-form SQL
server_create_table ==
    \E relation \in TableChoices :
        /\ Exists(db[RepoOwner], SharedRepo)
        /\ relation \notin db[RepoOwner][SharedRepo].relations
        /\ db' = [db EXCEPT ![RepoOwner][SharedRepo].relations = @ \cup {relation}]
        /\ UNCHANGED <<validator_vars, call_vars, session, obs, web>>

manager_delete_repo ==
    \E username \in Bases, repo \in RepoNames, force \in BOOLEAN :
        LET a == [repo |-> repo, force |-> force]
        IN  /\ Runs(delete_repo(a), username, RepoOwner)
            /\ call' = [op |-> "delete_repo", a |-> a, user |-> username,
                        base |-> RepoOwner, before |-> db[RepoOwner],
                        after |-> db'[RepoOwner]]
            /\ UNCHANGED <<validator_vars, session, obs, web>>

manager_recreate_repo ==
    LET a == [repo |-> SharedRepo]
    IN  /\ ~Exists(db[RepoOwner], SharedRepo)
        /\ Runs(create_repo(RepoOwner, a), RepoOwner, RepoOwner)
        /\ call' = [op |-> "create_repo", a |-> a, user |-> RepoOwner,
                    base |-> RepoOwner, before |-> db[RepoOwner],
                    after |-> db'[RepoOwner]]
        /\ UNCHANGED <<validator_vars, session, obs, web>>

\* views.repo_tables: the tables and views of a repo, both empty when the
\* manager raises LookupError; any other exception leaves the view
repo_tables ==
    \E username \in Bases, repo \in RepoNames :
        LET d == db[RepoOwner]
            a == [repo |-> repo, repos |-> Range(list_repos(d, username))]
            tables == list_tables(a)
            views == list_views(a)
            how == IF tables.outcome # "returned" THEN tables.outcome
                   ELSE views.outcome
            ran == IF tables.outcome # "returned" THEN tables.executed
                   ELSE tables.executed \o views.executed
        IN  /\ call' = [op |-> "repo_tables", a |-> a, user |-> username,
                        base |-> RepoOwner, before |-> d, after |-> d]
            /\ outcome' = how
            /\ checked' = IF tables.outcome # "returned" THEN tables.checked
                           ELSE tables.checked \o views.checked
            /\ executed' = ran
            /\ driver' = Driven(ran)
            /\ result' = IF ran = <<>> THEN NoResult ELSE mock_result
            /\ web' = [view |-> "repo_tables", user |-> username, repo |-> repo,
                       response |->
                           IF how = "LookupError"
                           THEN [base_tables |-> {}, views |-> {}]
                           ELSE IF how = "returned"
                           THEN [base_tables |-> d[repo].relations, views |-> {}]
                           ELSE [raised |-> how]]
            /\ UNCHANGED <<validator_vars, db, session, obs>>

DropInit ==
    /\ ValidatorIdle
    /\ CallIdle
    /\ db = ServerWithRepo
    /\ session = NoSession
    /\ obs = NoObs
    /\ web = NoRequest

DropNext ==
    \/ server_create_table
    \/ manager_delete_repo
    \/ manager_recreate_repo
    \/ repo_tables

SpecDrop == DropInit /\ [][DropNext]_vars

(***************************************************************************)
(* Developer apps.  Here db holds the App table of inventory.models (rows   *)
(* with a primary key, an app_id and the user they belong to) next to the   *)
(* roles of the database cluster; holding is the set of roles that own an   *)
(* object or hold a privilege, which the server refuses to drop.            *)
(***************************************************************************)
PostedAppIds == {"good", "Good", "alice", "foo_"}
AppIds == {"good", "alice", "foo_"}

UpperCase ==
    <<"A", "B", "C", "D", "E", "F", "G", "H", "I", "J", "K", "L", "M", "N", "O",
      "P", "Q", "R", "S", "T", "U", "V", "W", "X", "Y", "Z">>
LowerCase ==
    <<"a", "b", "c", "d", "e", "f", "g", "h", "i", "j", "k", "l", "m", "n", "o",
      "p", "q", "r", "s", "t", "u", "v", "w", "x", "y", "z">>
lower_char(c) ==
    IF \E i \in DOMAIN UpperCase : UpperCase[i] = c
    THEN LowerCase[CHOOSE i \in DOMAIN UpperCase : UpperCase[i] = c]
    ELSE c
\* str.lower()
lower(name) ==
    CHOOSE n \in DOMAIN Spelling :
        Spelling[n] = [i \in DOMAIN Spelling[name] |-> lower_char(Spelling[name][i])]

\* CREATE ROLE and DROP ROLE as the server runs them for its own user
ExecRole(st, s) ==
    LET name == Values(st.params)[1]
    IN  CASE st.sql[1] = "CREATE ROLE %s WITH LOGIN NOCREATEDB NOCREATEROLE NOCREATEUSER PASSWORD %s" ->
               IF name \in s.roles THEN Refused(s)
               ELSE Done([s EXCEPT !.roles = @ \cup {name}])
          [] st.sql[1] = "DROP ROLE %s" ->
               IF name \in s.roles /\ name \notin s.holding
               THEN Done([s EXCEPT !.roles = @ \ {name}])
               ELSE Refused(s)
          [] OTHER -> Refused(s)

\* a static call of DataHubManager: validation, then the statement on the
\* server; r.raised when an exception leaves the call
StaticCall(r, s) ==
    IF r.outcome # "returned"
    THEN [raised |-> TRUE, error |-> r.outcome, ok |-> FALSE, db |-> s]
    ELSE LET res == ExecRole(Driven(r.executed)[1], s)
         IN  [raised |-> FALSE, error |-> "", ok |-> res.ok, db |-> res.db]

Redirect(url) == [redirect |-> url]
Rendered(page, errors) == [page |-> page, errors |-> errors]

AppRequest(view, method, username, app_id, saved, response, after) ==
    [view |-> view, method |-> method, user |-> username, app_id |-> app_id,
     saved |-> saved, response |-> response, before |-> db, after |-> after]

\* what a static call leaves in the call variables
Called(op, a, r, done) ==
    /\ call' = [op |-> op, a |-> a, user |-> settings_user]
    /\ outcome' = IF done.raised THEN done.error
                  ELSE IF done.ok THEN "returned" ELSE "ExecutionFailure"
    /\ checked' = r.checked
    /\ executed' = r.executed
    /\ driver' = Driven(r.executed)
    /\ result' = IF done.raised THEN NoResult
                 ELSE sql_result(IF done.ok THEN Fetched(-1, <<>>)
                                  ELSE Failed("refused"))
Uncalled ==
    /\ call' = NoCall
    /\ outcome' = "pending"
    /\ checked' = <<>>
    /\ executed' = <<>>
    /\ driver' = <<>>
    /\ result' = NoResult

\* views.app_register: on POST the App row is saved, then the role is
\* created; an exception of create_user deletes the row and renders the form
\* with the error; the record create_user returns is not looked at
app_register_view(username, method, posted) ==
    LET app_id == lower(posted)
        row == [pk |-> db.next_pk, app_id |-> app_id, user |-> username]
        a == [username |-> app_id, password |-> "hashed_password",
              create_db |-> FALSE]
        r == create_user(a)
        saved == [db EXCEPT !.apps = @ \cup {row}, !.next_pk = @ + 1]
        done == StaticCall(r, saved)
        after == IF done.raised
                 THEN [done.db EXCEPT !.apps = @ \ {row}] ELSE done.db
    IN  IF method # "POST"
        THEN /\ Uncalled
             /\ db' = db
             /\ web' = AppRequest("app_register", method, username, app_id, 0,
                                  Rendered("app-create.html", <<>>), db)
        ELSE IF db.unique /\ \E x \in db.apps : x.app_id = app_id
        THEN /\ Uncalled
             /\ db' = db
             /\ web' = AppRequest("app_register", method, username, app_id, 0,
                                  Rendered("app-create.html", <<"IntegrityError">>), db)
        ELSE /\ Called("create_user", a, r, done)
             /\ db' = after
             /\ web' = AppRequest("app_register", method, username, app_id, row.pk,
                                  IF done.raised
                                  THEN Rendered("app-create.html", <<done.error>>)
                                  ELSE Redirect("/developer/apps"), after)

app_register ==
    \E username \in Bases, method \in {"GET", "POST"}, posted \in PostedAppIds :
        /\ method = "POST" => db.next_pk <= MaxApps
        /\ app_register_view(username, method, posted)
        /\ UNCHANGED <<validator_vars, session, obs>>

\* views.app_remove: the App row of the user is looked up and deleted, then
\* the role is dropped; any exception renders apps.html with the error
app_remove_view(username, app_id) ==
    LET found == { a \in db.apps : a.user = username /\ a.app_id = app_id }
        row == CHOOSE a \in found : TRUE
        a == [username |-> app_id]
        r == remove_user(a)
        deleted == [db EXCEPT !.apps = @ \ {row}]
        done == StaticCall(r, deleted)
    IN  IF Cardinality(found) # 1
        THEN /\ Uncalled
             /\ db' = db
             /\ web' = AppRequest("app_remove", "GET", username, app_id, 0,
                                  Rendered("apps.html",
                                           IF found = {} THEN <<"DoesNotExist">>
                                           ELSE <<"MultipleObjectsReturned">>), db)
        ELSE /\ Called("remove_user", a, r, done)
             /\ db' = done.db
             /\ web' = AppRequest("app_remove", "GET", username, app_id, row.pk,
                                  IF done.raised
                                  THEN Rendered("apps.html", <<done.error>>)
                                  ELSE Redirect("/developer/apps"), done.db)

app_remove ==
    \E username \in Bases, app_id \in AppIds :
        /\ app_remove_view(username, app_id)
        /\ UNCHANGED <<validator_vars, session, obs>>

\* a repo owner grants an app's role a privilege, or revokes what it holds
server_grant_app ==
    \E role \in db.roles \ Roles :
        /\ role \notin db.holding
        /\ db' = [db EXCEPT !.holding = @ \cup {role}]
        /\ UNCHANGED <<validator_vars, call_vars, session, obs, web>>

server_revoke_app ==
    \E role \in db.holding \ Roles :
        /\ db' = [db EXCEPT !.holding = @ \ {role}]
        /\ UNCHANGED <<validator_vars, call_vars, session, obs, web>>

AppsInit ==
    /\ ValidatorIdle
    /\ CallIdle
    /\ \E unique \in BOOLEAN :
          db = [apps |-> {}, next_pk |-> 1, roles |-> Roles, holding |-> Roles,
                unique |-> unique]
    /\ session = NoSession
    /\ obs = NoObs
    /\ web = NoRequest

AppsNext ==
    \/ app_register
    \/ app_remove
    \/ server_grant_app
    \/ server_revoke_app

SpecApps == AppsInit /\ [][AppsNext]_vars

(***************************************************************************)
(* The account login form.  Here session is the browser's Django session:  *)
(* anonymous, or logged in as a user.                                       *)
(***************************************************************************)
\* the accounts: alice is active, bob has been deactivated
Accounts ==
    [alice |-> [password |-> "pw_alice", is_active |-> TRUE],
     bob |-> [password |-> "pw_bob", is_active |-> FALSE]]

Anonymous == [state |-> "anonymous"]
LoggedIn(username) == [state |-> "logged_in", user |-> username]

PostedUsernames == {"", "alice", "Alice", "bob", "good"}
PostedPasswords == {"", "pw_alice", "pw_bob", "wrong"}
Methods == {"GET", "POST", "HEAD"}

\* LoginForm(request.POST).is_valid(): both fields are required
is_valid(form) == form.username # "" /\ form.password # ""

\* datahub_authenticate: the user of the credentials, or None
datahub_authenticate(username, password) ==
    IF username \in DOMAIN Accounts /\ Accounts[username].password = password
    THEN username ELSE None

NoMatch == "Username and password do not match."

\* the login form handed back, with its errors
LoginPage(errors) == [page |-> "login.html", errors |-> errors]

\* a login that does not look at is_active
login_view_inactive_too(method, form) ==
    LET user == datahub_authenticate(lower(form.username), form.password)
    IN  IF method = "POST" /\ is_valid(form)
        THEN IF user # None
             THEN [attempted |-> TRUE, user |-> user, login |-> TRUE,
                   response |-> Redirect("/")]
             ELSE [attempted |-> TRUE, user |-> user, login |-> FALSE,
                   response |-> LoginPage(<<NoMatch>>)]
        ELSE [attempted |-> FALSE, user |-> None, login |-> FALSE,
              response |-> LoginPage(IF method = "POST" THEN <<"required">>
                                     ELSE <<>>)]

\* account.views.login
login_view(method, form) ==
    LET user == datahub_authenticate(lower(form.username), form.password)
    IN  IF method = "POST" /\ is_valid(form)
        THEN IF user # None /\ Accounts[user].is_active
             THEN [attempted |-> TRUE, user |-> user, login |-> TRUE,
                   response |-> Redirect("/")]
             ELSE [attempted |-> TRUE, user |-> user, login |-> FALSE,
                   response |-> LoginPage(<<NoMatch>>)]
        ELSE [attempted |-> FALSE, user |-> None, login |-> FALSE,
              response |-> LoginPage(IF method = "POST" THEN <<"required">>
                                     ELSE <<>>)]

login ==
    \E method \in Methods, username \in PostedUsernames,
       password \in PostedPasswords :
        LET form == [username |-> username, password |-> password]
            done == login_view(method, form)
            after == IF done.login THEN LoggedIn(done.user) ELSE session
        IN  /\ session' = after
            /\ web' = [view |-> "login", method |-> method, form |-> form,
                       attempted |-> done.attempted, user |-> done.user,
                       django_login |-> done.login,
                       response |-> done.response,
                       before |-> session, after |-> after]
            /\ UNCHANGED <<validator_vars, call_vars, db, obs>>

\* account.views.logout
logout ==
    /\ session' = Anonymous
    /\ web' = [view |-> "logout", response |-> Redirect("/"),
               before |-> session, after |-> Anonymous]
    /\ UNCHANGED <<validator_vars, call_vars, db, obs>>

LoginInit ==
    /\ ValidatorIdle
    /\ CallIdle
    /\ db = NewServer
    /\ session = Anonymous
    /\ obs = NoObs
    /\ web = NoRequest

LoginNext ==
    \/ login
    \/ logout

SpecLogin == LoginInit /\ [][LoginNext]_vars

(***************************************************************************)
(* C1                                                                      *)
(***************************************************************************)
StartsWithLetter(w) == Len(w) > 0 /\ w[1] \in Letter
OnlyNameChars(w) ==
    \A i \in 2..Len(w) : w[i] \in Letter \cup Digit \cup {Underscore, Hyphen}
EdgeIsMark(w) ==
    Len(w) > 0 /\ (w[1] \in {Underscore, Hyphen} \/ w[Len(w)] \in {Underscore, Hyphen})
HasBlankOrSeparator(w) ==
    \E i \in 1..Len(w) : w[i] \in Whitespace \cup {Separator}

\* C1: every noun that starts with a letter, continues with letters, digits,
\* underscore or hyphen and does not end with underscore or hyphen is
\* accepted; the empty noun, every noun that starts or ends with underscore
\* or hyphen and every noun with whitespace or ';' raises ValueError; the
\* test's good nouns are accepted and its bad nouns rejected.
C1_ValidatorContract ==
    verdict # "none" =>
        /\ (StartsWithLetter(noun) /\ OnlyNameChars(noun) /\ ~EdgeIsMark(noun))
               => verdict = "accepted"
        /\ (noun = <<>> \/ EdgeIsMark(noun) \/ HasBlankOrSeparator(noun))
               => verdict = "ValueError"
        /\ noun \in good_nouns => verdict = "accepted"
        /\ noun \in bad_nouns => verdict = "ValueError"

\* a noun with a letter first, a mark inside and a digit last was accepted,
\* and a noun ending in a mark was rejected
C1_Witness ==
    /\ verdict = "accepted"
    /\ Len(noun) = 3
    /\ noun[2] \in {Underscore, Hyphen}
    /\ noun[3] \in Digit

(***************************************************************************)
(* C2                                                                      *)
(***************************************************************************)
SplicingOps ==
    {"create_repo", "delete_repo", "add_collaborator", "delete_collaborator",
     "list_tables", "list_views", "get_schema", "create_user",
     "create_user_database", "remove_user", "remove_database",
     "change_password", "export_table", "export_query", "import_file"}

\* the caller's names that the operation puts into its statement
IdentifierArguments(c) ==
    CASE c.op \in {"create_repo", "delete_repo", "list_tables", "list_views"} ->
            {c.a.repo}
      [] c.op = "add_collaborator" ->
            {c.a.repo, c.a.collaborator} \cup Range(c.a.privileges)
      [] c.op = "delete_collaborator" -> {c.a.repo, c.a.collaborator}
      [] c.op = "get_schema" -> {c.a.repo, c.a.table}
      [] c.op \in {"create_user", "create_user_database", "remove_user",
                   "change_password"} -> {c.a.username}
      [] c.op = "remove_database" -> {c.a.database}
      [] c.op \in {"export_table", "import_file"} ->
            Range(c.a.table_name) \cup {c.a.file_format}
      [] c.op = "export_query" -> {c.a.file_format}
      [] OTHER -> {}

FailsValidation(name) ==
    LET w == Spelling[name]
    IN  \/ w = <<>>
        \/ w[1] \notin Letter
        \/ w[Len(w)] \in {Underscore, Hyphen}
        \/ HasBlankOrSeparator(w)

GrantCalls == {"add_collaborator", "delete_collaborator"}
CallEnded == session.state = "closed" /\ call.op \in GrantCalls
RepoNow == db[RepoOwner][SharedRepo]
RepoBefore == session.before[SharedRepo]

\* the three sub-changes of the call, each as seen in the grants sch
SchemaChangeApplied(sch, c) ==
    IF c.op = "add_collaborator" THEN "U" \in sch.nspacl[c.a.collaborator]
    ELSE sch.nspacl[c.a.collaborator] = {}
TablesChangeApplied(sch, c) ==
    IF c.op = "add_collaborator"
    THEN Range(c.a.privileges) \subseteq sch.tables[c.a.collaborator]
    ELSE sch.tables[c.a.collaborator] = {}
DefaultsChangeApplied(sch, c) ==
    IF c.op = "add_collaborator"
    THEN Range(c.a.privileges) \subseteq sch.defaults[c.a.collaborator]
    ELSE sch.defaults[c.a.collaborator] = {}

\* C3: add_collaborator and delete_collaborator are atomic.  A call ends in
\* one of two ways: it returns and all three sub-changes (schema-level,
\* current tables, default privileges) are applied, or it fails and the grant
\* state equals the grant state before the call; a failed call never leaves
\* some of the sub-changes behind.
C3_GrantsAreAtomic ==
    CallEnded =>
        \/ /\ outcome = "returned"
           /\ SchemaChangeApplied(RepoNow, call)
           /\ TablesChangeApplied(RepoNow, call)
           /\ DefaultsChangeApplied(RepoNow, call)
        \/ /\ outcome \in {"ExecutionFailure", "ValueError"}
           /\ db[RepoOwner] = session.before

\* a call that failed after the server had run one of its sub-changes
C3_Witness ==
    /\ CallEnded
    /\ outcome = "ExecutionFailure"
    /\ session.ran >= 1
    /\ db[RepoOwner] = session.before

(***************************************************************************)
(* C4                                                                      *)
(***************************************************************************)
\* the grants once all three sub-changes of the call c are made on sch
FullyApplied(sch, c) ==
    LET g == c.a.collaborator
    IN  IF c.op = "add_collaborator"
        THEN [sch EXCEPT !.nspacl = [WithOwner(sch) EXCEPT ![g] = @ \cup {"U"}],
                         !.tables[g] = @ \cup Range(c.a.privileges),
                         !.defaults[g] = @ \cup Range(c.a.privileges)]
        ELSE [sch EXCEPT !.nspacl = [WithOwner(sch) EXCEPT ![g] = {}],
                         !.tables[g] = {},
                         !.defaults[g] = {}]

ReadDuringCall == obs.op # "none" /\ obs.during.op \in GrantCalls

\* C4: a read (list_collaborators, has_repo_privilege, has_table_privilege)
\* made on another connection while an add_collaborator or
\* delete_collaborator call is running is answered from the grants as they
\* were before the call or as they are with all three sub-changes made, never
\* from grants with only some of them.
C4_NoPartialGrantVisible ==
    ReadDuringCall =>
        obs.seen \in {obs.before, FullyApplied(obs.before, obs.during)}

\* a read made when the running call had made one or two of its sub-changes
C4_Witness ==
    /\ ReadDuringCall
    /\ obs.ran \in {1, 2}
    /\ obs.during.op = "delete_collaborator"
    /\ obs.before.tables["bob"] # {}
    /\ obs.op = "has_table_privilege"
    /\ obs.result = TRUE

(***************************************************************************)
(* C5                                                                      *)
(***************************************************************************)
AddReturned ==
    CallEnded /\ call.op = "add_collaborator" /\ outcome = "returned"

\* C5 as claimed: after add_collaborator(repo, g, P2) the privileges g holds
\* on the repo's tables are exactly P2, whatever an earlier add_collaborator
\* granted.
C5_LaterGrantSupersedes ==
    AddReturned =>
        RepoNow.tables[call.a.collaborator] = Range(call.a.privileges)

\* C5 as it holds: a grant adds to the earlier grants of the same
\* (repo, grantee) pair.  After add_collaborator(repo, g, P2) the privileges
\* g holds on the repo's tables are those held before together with P2.
C5_LaterGrantAdds ==
    AddReturned =>
        RepoNow.tables[call.a.collaborator] =
            RepoBefore.tables[call.a.collaborator] \cup Range(call.a.privileges)

\* a second grant that leaves out a privilege of the first
C5_Witness ==
    /\ AddReturned
    /\ ~(RepoBefore.tables[call.a.collaborator] \subseteq Range(call.a.privileges))
    /\ Range(call.a.privileges) # {}

(***************************************************************************)
(* C6                                                                      *)
(***************************************************************************)
RepoRequest == web.view \in {"repo_create", "repo_delete"}

\* C6: create_repo and delete_repo are invoked for a repo base B only when
\* the logged-in user is B; a repo_create or repo_delete request of any other
\* logged-in user is refused and changes no repo.
C6_OnlyOwnerCreatesOrDeletes ==
    /\ call.op \in {"create_repo", "delete_repo"} => call.user = call.base
    /\ (RepoRequest /\ web.user # web.base) =>
           /\ web.response = "forbidden"
           /\ call = NoCall
           /\ db = web.before

(***************************************************************************)
(* C7                                                                      *)
(***************************************************************************)
Usernames(entries) == { entries[i].username : i \in DOMAIN entries }

\* C7: after a successful add_collaborator(r, bob, privileges),
\* list_collaborators(r) has an entry whose username is bob; after a
\* successful delete_collaborator(r, bob) it has none.
C7_CollaboratorRoundTrip ==
    (CallEnded /\ outcome = "returned") =>
        LET listed == Usernames(list_collaborators(db[RepoOwner], call.a.repo))
        IN  IF call.op = "add_collaborator"
            THEN call.a.collaborator \in listed
            ELSE call.a.collaborator \notin listed

\* bob was listed, delete_collaborator returned, and list_collaborators read
\* since then does not list bob
C7_Witness ==
    /\ CallEnded
    /\ outcome = "returned"
    /\ call.op = "delete_collaborator"
    /\ call.a.collaborator = "bob"
    /\ "U" \in RepoBefore.nspacl["bob"]
    /\ obs.op = "list_collaborators"
    /\ obs.seen = RepoNow
    /\ obs.during = NoCall
    /\ "bob" \notin Usernames(obs.result)
    /\ "alice" \in Usernames(obs.result)

(***************************************************************************)
(* C8                                                                      *)
(***************************************************************************)
CreateReturned == call.op = "create_repo" /\ outcome = "returned"

\* C8: after a successful create_repo(r), list_repos() on the same repo base
\* includes r; list_repos() returns the flat list of schema names and never
\* a schema owned by the server's own user.
C8_CreatedRepoIsListed ==
    /\ CreateReturned =>
           call.a.repo \in Range(list_repos(db[call.base], call.user))
    /\ obs.op = "user" =>
           \A i \in DOMAIN obs.listed :
               /\ obs.listed[i] \in SchemaNames
               /\ db[obs.repo_base][obs.listed[i]].owner # settings_user

(***************************************************************************)
(* C9                                                                      *)
(***************************************************************************)
\* C9: create_repo is idempotent.  When create_repo(r) has returned and it is
\* called again with the same name by the same manager, the second call
\* returns too, and the repos and their owners are as the first call left
\* them.
C9_CreateRepoIdempotent ==
    [][ (CreateReturned /\ call' = call) => (outcome' = "returned" /\ db' = db) ]_vars

\* the same repo_create request made twice in a row, both returning
C9_Witness ==
    /\ CreateReturned
    /\ web.view = "repo_create"
    /\ web.prev # NoRequest
    /\ web.prev.view = "repo_create"
    /\ web.prev.user = web.user
    /\ web.prev.base = web.base
    /\ web.prev.repo = web.repo
    /\ web.prev.response = "redirect"
    /\ web.repo = "repo"
    /\ web.before = db
    /\ db[web.base]["repo"] = Schema(web.user)

(***************************************************************************)
(* C10                                                                     *)
(***************************************************************************)
\* the text a of a query a + ";" + b (the whole query when it has no ";")
BeforeSeparator(q) ==
    IF FirstSeparator(q) = 0 THEN q ELSE SubSeq(q, 1, FirstSeparator(q) - 1)

\* a statement follows a statement separator in the text
HasStackedStatement(t) ==
    \E i, j \in 1..Len(t) :
        i < j /\ t[i] = Separator /\ t[j] \notin Whitespace \cup {Separator}

\* C10: of free-form SQL a + ";" + b given to execute_sql or to export_query
\* nothing after the first ";" reaches the driver, so no stacked statement
\* is executed, and the params reach the driver unchanged.
C10_OnlyFirstStatementRuns ==
    /\ call.op = "execute_sql" =>
          /\ Len(driver) = 1
          /\ ~HasStackedStatement(driver[1].sql)
          /\ driver[1].params = call.a.params
    /\ (call.op = "export_query" /\ outcome = "returned") =>
          /\ Len(driver) = 1
          /\ driver[1].params[1].v = BeforeSeparator(call.a.query)

(***************************************************************************)
(* C11                                                                     *)
(***************************************************************************)
ExportQueryReturned == call.op = "export_query" /\ outcome = "returned"

\* the text is q up to, and without, its first ";"
IsTextBeforeFirstSeparator(text, q) ==
    /\ Len(text) <= Len(q)
    /\ text = SubSeq(q, 1, Len(text))
    /\ \A i \in 1..Len(text) : text[i] # Separator
    /\ Len(text) < Len(q) => q[Len(text) + 1] = Separator

\* C11: export_query hands the execution one statement whose first parameter
\* is its query cut before the first ";" (the whole query when it has none),
\* ' text before semicolon; text after; ' giving ' text before semicolon',
\* followed by file_path, file_format, the header qualifier and the
\* delimiter, in that order.
C11_ExportQueryCutsAtSeparator ==
    ExportQueryReturned =>
        /\ Len(executed) = 1
        /\ executed[1].sql = export_query_query
        /\ Len(executed[1].params) = 5
        /\ IsTextBeforeFirstSeparator(executed[1].params[1].v, call.a.query)
        /\ call.a.query = passed_query =>
               executed[1].params[1].v = <<" text before semicolon">>
        /\ SubSeq(Values(executed[1].params), 2, 5) =
               <<call.a.file_path, call.a.file_format,
                 IF call.a.header THEN "HEADER" ELSE "", call.a.delimiter>>

\* the test's query, with text after its first ";", was exported
C11_Witness ==
    /\ ExportQueryReturned
    /\ call.a.query = passed_query
    /\ ~call.a.header
    /\ executed[1].params[1].v = <<" text before semicolon">>

BackendWords == {header_option(TRUE), header_option(FALSE), "CASCADE", BackendUser}

\* the caller's names inside the raw value of parameter j
NamesIn(c, j, v) ==
    IF c.op \in {"export_table", "import_file"} /\ j = 1 THEN Range(v)
    ELSE IF c.op = "add_collaborator" /\ v = Join(c.a.privileges, ", ")
         THEN Range(c.a.privileges)
    ELSE IF c.op = "remove_database" /\ v \in Range(c.a.all_users) THEN {}
    ELSE {v} \ BackendWords

\* the caller's names that the call's statements carry raw-wrapped; the
\* query of export_query is text, not a name, and is looked at on its own
RawNames(c) ==
    UNION { NamesIn(c, j, executed[i].params[j].v) :
              <<i, j>> \in { <<i, j>> \in (DOMAIN executed) \X (1..8) :
                               /\ j \in DOMAIN executed[i].params
                               /\ executed[i].params[j].raw
                               /\ ~(c.op = "export_query" /\ j = 1) } }

\* every validation of the call was spent on a name other than the query
QueryNeverValidated(c) == Range(checked) \subseteq {c.a.file_path, c.a.file_format}

PasswordIsBound ==
    call.op \in {"create_user", "change_password"} =>
        \A j \in DOMAIN executed[1].params :
            executed[1].params[j].v = call.a.password => ~executed[1].params[j].raw

\* C13: in every statement the backend builds a caller-supplied value is
\* raw-wrapped only after it passed the identifier validator, and literal
\* values (the password of create_user and change_password, the user name
\* of list_all_users) are bound parameters, never raw-wrapped.
C13_RawOnlyAfterValidation ==
    (call.op \in SplicingOps /\ outcome = "returned") =>
        /\ RawNames(call) \subseteq Range(checked)
        /\ call.op = "export_query" =>
               (executed[1].params[1].raw => ~QueryNeverValidated(call))
        /\ PasswordIsBound
        /\ call.op = "remove_database" => ~executed[1].params[1].raw

(***************************************************************************)
(* C14                                                                     *)
(***************************************************************************)
\* what the claim has import_file validate
ImportFileNouns(a) ==
    Range(a.table_name) \cup {a.file_path, a.file_format, a.quote_character}

\* C14: import_file passes the table name, the file path, the file format
\* and the quote character through the identifier validator before the COPY
\* ... FROM statement is built; when one of them fails no statement is
\* executed; the parameters are (table, file_path, file_format, header
\* qualifier, delimiter, encoding, quote_character) in that order.
C14_ImportFileValidatesAll ==
    call.op = "import_file" =>
        /\ (\E n \in ImportFileNouns(call.a) : FailsValidation(n)) =>
               (outcome = "ValueError" /\ executed = <<>>)
        /\ outcome = "returned" =>
               /\ ImportFileNouns(call.a) \subseteq Range(checked)
               /\ Len(executed) = 1
               /\ executed[1].sql = import_file_query
               /\ Values(executed[1].params) =
                     <<call.a.table_name, call.a.file_path, call.a.file_format,
                       header_option(call.a.header), call.a.delimiter,
                       call.a.encoding, call.a.quote_character>>

(***************************************************************************)
(* C15                                                                     *)
(***************************************************************************)
Paginated == call.op = "paginate_query"

\* C15: for num_rows >= 0, rows_per_page >= 1 and any current_page,
\* total_pages is ceil(num_rows / rows_per_page), the least number of pages
\* that hold every row (237 rows at 50 a page give 5), and the window has
\* 1 <= start_page and end_page <= total_pages, so every page number in
\* [start_page, end_page] is in 1..total_pages, also when num_rows is 0.
C15_PaginationWindowBounded ==
    Paginated =>
        LET n == call.num_rows
            per == call.a.rows_per_page
        IN  /\ result.total_pages * per >= n
            /\ (result.total_pages - 1) * per < n
            /\ (n = 237 /\ per = 50) => result.total_pages = 5
            /\ 1 <= result.start_page
            /\ result.end_page <= result.total_pages
            /\ \A p \in result.start_page..result.end_page :
                   p \in 1..result.total_pages

\* 237 rows at 50 a page, asked for a page beyond the last
C15_Witness ==
    /\ Paginated
    /\ call.num_rows = 237
    /\ call.a.rows_per_page = 50
    /\ call.a.current_page.n > 5
    /\ result.total_pages = 5
    /\ result.end_page = 5

(***************************************************************************)
(* C16                                                                     *)
(***************************************************************************)
\* the rows of the 1-indexed page p among n rows
RowsOfPage(n, p, per) == { r \in 1..n : (p - 1) * per < r /\ r <= p * per }

PageViews == {"table", "query", "card"}

\* C16: pages are 1-indexed and clamped: a current_page below 1 gets the
\* rows of page 1, one above total_pages the rows of page total_pages, and
\* the view that called shows the clamped page as current and takes the next
\* and the previous page from it.
C16_ClampedPageShown ==
    Paginated =>
        LET asked == call.a.current_page.n
            total == result.total_pages
            page == IF asked < 1 THEN 1 ELSE IF asked > total THEN total ELSE asked
        IN  /\ result.rows = RowsOfPage(call.num_rows, page, call.a.rows_per_page)
            /\ web.view \in PageViews =>
                   /\ "current_page" \in DOMAIN web.response
                   /\ web.response.current_page = Max(1, page)
                   /\ web.response.next_page = Max(1, page) + 1
                   /\ web.response.prev_page = Max(1, page) - 1

(***************************************************************************)
(* C17                                                                     *)
(***************************************************************************)
\* managers m and n have each finished a create_repo of the same name in
\* the same database, and m's call created the schema
WonAgainst(m, n) ==
    /\ m # n
    /\ call[m].pc = "ready" /\ call[n].pc = "ready"
    /\ call[m].did = "created" /\ call[n].did # "none"
    /\ call[m].base = call[n].base
    /\ call[m].repo = call[n].repo

Created(base, repo) ==
    { i \in DOMAIN obs :
        obs[i].base = base /\ obs[i].repo = repo /\ obs[i].did = "created" }

OneSchema(m) ==
    /\ Exists(db[call[m].base], call[m].repo)
    /\ Cardinality(Created(call[m].base, call[m].repo)) = 1

ConnectionsOf(m) == { i \in DOMAIN session : session[i].manager = m }

\* C18: a manager has exactly one connection, opened when it was
\* constructed; its calls open no other, each of its statements goes over
\* that connection, and no connection serves two managers.
C18_OneConnectionPerManager ==
    /\ \A m \in Managers :
          IF call[m].pc = "none"
          THEN ConnectionsOf(m) = {}
          ELSE ConnectionsOf(m) = {call[m].conn}
    /\ \A i \in DOMAIN driver :
          /\ driver[i].conn = call[driver[i].manager].conn
          /\ session[driver[i].conn].manager = driver[i].manager
    /\ \A i, j \in DOMAIN driver :
          driver[i].conn = driver[j].conn => driver[i].manager = driver[j].manager
    /\ \A m, n \in Managers :
          (m # n /\ call[m].pc # "none" /\ call[n].pc # "none")
              => call[m].conn # call[n].conn

\* two managers, each after two calls on its own connection
C18_Witness ==
    /\ \A m \in Managers : call[m].calls = 2 /\ call[m].pc = "ready"
    /\ Len(session) = 2
    /\ Len(driver) = 4
    /\ \E i, j \in DOMAIN driver : driver[i].conn # driver[j].conn

(***************************************************************************)
(* C19                                                                     *)
(***************************************************************************)
AddCollaboratorReturned == call.op = "add_collaborator" /\ outcome = "returned"

AllRaw(params) == \A i \in DOMAIN params : params[i].raw

\* one execute of the grant transaction with the 8 parameters (repo,
\* collaborator, P, repo, collaborator, repo, P, collaborator), all raw
GrantStatementShape ==
    /\ Len(executed) = 1
    /\ Len(driver) = 1
    /\ executed[1].sql =
          <<"BEGIN", ";", Sql.grant_usage, ";", Sql.grant_tables, ";",
            Sql.grant_defaults, ";", "COMMIT", ";">>
    /\ Len(executed[1].params) = 8
    /\ AllRaw(executed[1].params)
    /\ LET P == executed[1].params[3].v
       IN  /\ Values(executed[1].params) =
                 <<call.a.repo, call.a.collaborator, P, call.a.repo,
                   call.a.collaborator, call.a.repo, P, call.a.collaborator>>
           /\ Len(call.a.privileges) = 1 => P = call.a.privileges[1]
           /\ call.a.privileges = <<"SELECT", "USAGE">> => P = "SELECT, USAGE"

\* C19 as stated: add_collaborator issues one execute of the BEGIN...COMMIT
\* grant template with 8 ordered raw parameters, P being the privileges
\* joined with ', ', after exactly 3 identifier validations, for every
\* repo, collaborator and privilege list.
C19_ThreeValidations ==
    AddCollaboratorReturned => (GrantStatementShape /\ Len(checked) = 3)

\* C19 amended: the same statement, after one validation of the repo, one
\* of the collaborator and one of each privilege of the list (3 for a
\* single privilege).
C19_ValidationPerPrivilege ==
    AddCollaboratorReturned =>
        /\ GrantStatementShape
        /\ Len(checked) = 2 + Len(call.a.privileges)
        /\ checked = <<call.a.repo, call.a.collaborator>> \o call.a.privileges

C19_Witness ==
    /\ AddCollaboratorReturned
    /\ call.a.privileges = <<"SELECT", "USAGE">>
    /\ executed[1].params[7].v = "SELECT, USAGE"
    /\ Len(checked) = 4

(***************************************************************************)
(* C20                                                                     *)
(***************************************************************************)
\* C20: delete_collaborator(repo, user) issues one execute of the
\* BEGIN...COMMIT revoke template (all tables, then the schema, then the
\* default privileges) with the 6 parameters (repo, user, repo, user, repo,
\* user), all raw, after exactly 2 identifier validations.
C20_DeleteCollaboratorShape ==
    (call.op = "delete_collaborator" /\ outcome = "returned") =>
        /\ Len(executed) = 1
        /\ Len(driver) = 1
        /\ executed[1].sql =
              <<"BEGIN", ";", Sql.revoke_tables, ";", Sql.revoke_schema, ";",
                Sql.revoke_defaults, ";", "COMMIT", ";">>
        /\ Values(executed[1].params) =
              <<call.a.repo, call.a.collaborator, call.a.repo,
                call.a.collaborator, call.a.repo, call.a.collaborator>>
        /\ AllRaw(executed[1].params)
        /\ checked = <<call.a.repo, call.a.collaborator>>

C20_Witness ==
    /\ call.op = "delete_collaborator"
    /\ outcome = "returned"
    /\ call.a.repo = "good_noun"
    /\ call.a.collaborator = "good"
    /\ Len(executed[1].params) = 6
    /\ Len(checked) = 2

(***************************************************************************)
(* C21                                                                     *)
(***************************************************************************)
\* the row "<username>=<permissions>/<grantor>" written out again
AclText(username, permissions, grantor) ==
    (IF username = "" THEN <<>> ELSE <<username>>) \o <<"=">>
    \o (IF permissions = "" THEN <<>> ELSE <<permissions>>) \o <<"/", grantor>>

\* C21: list_collaborators returns one record per ACL row, in the rows'
\* order, whose username is the text before "=" (empty for a grant to
\* everyone) and whose permissions are the text between "=" and "/"; the
\* rows al_carter=UC/al_carter and foo_bar=U/al_carter give al_carter with
\* UC and foo_bar with U; the repo name is a bound parameter.
C21_CollaboratorsFromAclRows ==
    obs.op = "list_collaborators" =>
        /\ Len(obs.result) = Len(obs.rows)
        /\ \A i \in DOMAIN obs.rows :
              /\ DOMAIN obs.result[i] = {"username", "permissions"}
              /\ obs.rows[i] = AclText(obs.result[i].username,
                                       obs.result[i].permissions,
                                       obs.rows[i][Len(obs.rows[i])])
        /\ obs.rows = << <<"al_carter", "=", "UC", "/", "al_carter">>,
                         <<"foo_bar", "=", "U", "/", "al_carter">> >>
              => obs.result = << [username |-> "al_carter", permissions |-> "UC"],
                                 [username |-> "foo_bar", permissions |-> "U"] >>
        /\ Len(obs.stmts) = 1
        /\ obs.stmts[1].sql =
              <<"SELECT unnest(nspacl) FROM pg_namespace WHERE nspname=%s", ";">>
        /\ obs.stmts[1].params = << [v |-> obs.repo, raw |-> FALSE] >>

\* a grant to everyone between two named grantees
C21_Witness ==
    /\ obs.op = "list_collaborators"
    /\ Len(obs.rows) = 3
    /\ obs.rows[2] = <<"=", "U", "/", "al_carter">>
    /\ obs.result[1].username = "al_carter"
    /\ obs.result[2] = [username |-> "", permissions |-> "U"]
    /\ obs.result[3].username = "foo_bar"

(***************************************************************************)
(* C22                                                                     *)
(***************************************************************************)
DeleteRepoSent == call.op = "delete_repo" /\ outcome # "ValueError"

\* C22: delete_repo(name, force) issues 'DROP SCHEMA %s %s' with the name
\* first and then 'CASCADE' when force is true, None when it is false;
\* without force the deletion of a repo that holds tables fails and the
\* repo and its tables stay.
C22_DeleteRepoQualifier ==
    DeleteRepoSent =>
        /\ Len(executed) = 1
        /\ executed[1].sql = <<"DROP SCHEMA %s %s">>
        /\ Len(executed[1].params) = 2
        /\ executed[1].params[1].v = call.a.repo
        /\ executed[1].params[2].v = IF call.a.force THEN "CASCADE" ELSE None
        /\ (/\ ~call.a.force
            /\ Exists(call.before, call.a.repo)
            /\ call.before[call.a.repo].relations # {})
               => /\ result.status = FALSE
                  /\ outcome = "ExecutionFailure"
                  /\ call.after = call.before

\* the owner's delete without force of the repo holding two tables
C22_Witness ==
    /\ DeleteRepoSent
    /\ ~call.a.force
    /\ call.user = RepoOwner
    /\ call.a.repo = SharedRepo
    /\ call.before[SharedRepo].relations = {"t1", "t2"}
    /\ call.after[SharedRepo].relations = {"t1", "t2"}
    /\ result.status = FALSE

(***************************************************************************)
(* C23                                                                     *)
(***************************************************************************)
IsRevoke(st) == st.sql = <<"REVOKE ALL ON DATABASE %s FROM %s", ";">>
IsDrop(st) == st.sql = <<"DROP DATABASE %s", ";">>

\* C23: remove_database(db) issues one REVOKE ALL ON DATABASE for each user
\* that list_all_users returned, in that order, then DROP DATABASE once,
\* after all of them; the database name is validated once.
C23_RevokesThenDrop ==
    (call.op = "remove_database" /\ outcome = "returned") =>
        LET revokes == SelectSeq(executed, IsRevoke)
            drops == { i \in DOMAIN executed : IsDrop(executed[i]) }
        IN  /\ Len(revokes) = Len(call.a.all_users)
            /\ \A i \in DOMAIN revokes :
                  Values(revokes[i].params) = <<call.a.database, call.a.all_users[i]>>
            /\ drops = {Len(executed)}
            /\ Values(executed[Len(executed)].params) = <<call.a.database>>
            /\ \A i \in DOMAIN executed :
                  IsRevoke(executed[i]) => i < Len(executed)
            /\ checked = <<call.a.database>>

C23_Witness ==
    /\ call.op = "remove_database"
    /\ outcome = "returned"
    /\ call.a.all_users = <<"tweedledee", "tweedledum">>
    /\ IsRevoke(executed[2]) /\ IsRevoke(executed[3])
    /\ IsDrop(executed[4])

(***************************************************************************)
(* C24                                                                     *)
(***************************************************************************)
CreatesDatabase(sts, username) ==
    /\ Len(sts) = 2
    /\ sts[1] = [sql |-> <<"CREATE DATABASE %s", ";", " ">>,
                 params |-> << [v |-> username, raw |-> TRUE] >>]
    /\ sts[2] = [sql |-> <<"ALTER DATABASE %s OWNER TO %s", ";", " ">>,
                 params |-> << [v |-> username, raw |-> TRUE],
                               [v |-> username, raw |-> TRUE] >>]

\* C24: create_user executes CREATE ROLE with the validated username raw
\* and the password bound, and goes on to create_user_database(username)
\* exactly when create_db is true; create_user_database issues CREATE
\* DATABASE <username> and then ALTER DATABASE <username> OWNER TO
\* <username>, and nothing else.
C24_CreateUserThenDatabase ==
    /\ (call.op = "create_user" /\ outcome = "returned") =>
          /\ call.a.username \in Range(checked)
          /\ executed[1] =
                [sql |-> <<"CREATE ROLE %s WITH LOGIN NOCREATEDB NOCREATEROLE NOCREATEUSER PASSWORD %s">>,
                 params |-> << [v |-> call.a.username, raw |-> TRUE],
                               [v |-> call.a.password, raw |-> FALSE] >>]
          /\ IF call.a.create_db
             THEN CreatesDatabase(SubSeq(executed, 2, Len(executed)), call.a.username)
             ELSE Len(executed) = 1
    /\ (call.op = "create_user_database" /\ outcome = "returned") =>
          CreatesDatabase(executed, call.a.username)

C24_Witness ==
    /\ call.op = "create_user"
    /\ outcome = "returned"
    /\ call.a.create_db
    /\ Len(executed) = 3
    /\ executed[3].sql[1] = "ALTER DATABASE %s OWNER TO %s"

(***************************************************************************)
(* C25                                                                     *)
(***************************************************************************)
Asks(st, text) == st.sql[1] = text

\* C25: list_tables and list_views ask list_repos first and query the
\* catalog only for a repo that is in its answer; for any other repo they
\* raise the lookup error, and the repo_tables page then shows empty lists
\* of tables and views instead of failing.
C25_UnlistedRepoShowsEmptyLists ==
    (call.op = "repo_tables" /\ outcome # "ValueError") =>
        LET listed == call.a.repo \in call.a.repos
            catalog == { i \in DOMAIN executed :
                           \/ Asks(executed[i], "SELECT table_name FROM information_schema.tables WHERE table_schema = %s AND table_type = 'BASE TABLE'")
                           \/ Asks(executed[i], "SELECT table_name FROM information_schema.tables WHERE table_schema = %s AND table_type = 'VIEW'") }
        IN  /\ executed # <<>>
            /\ Asks(executed[1], "SELECT schema_name AS repo_name FROM information_schema.schemata WHERE schema_owner != %s")
            /\ \A i \in catalog :
                  /\ listed
                  /\ i > 1
                  /\ Asks(executed[i - 1], "SELECT schema_name AS repo_name FROM information_schema.schemata WHERE schema_owner != %s")
            /\ listed => Cardinality(catalog) = 2
            /\ ~listed =>
                  /\ outcome = "LookupError"
                  /\ web.response = [base_tables |-> {}, views |-> {}]

\* bob opens the page of alice's repo, which holds a table he may not see
C25_Witness ==
    /\ call.op = "repo_tables"
    /\ call.user = "bob"
    /\ call.a.repo = SharedRepo
    /\ call.before[SharedRepo].relations # {}
    /\ outcome = "LookupError"
    /\ web.response.base_tables = {}

(***************************************************************************)
(* C26                                                                     *)
(***************************************************************************)
Separators(q) == { i \in DOMAIN q : q[i] = Separator }

CollaboratorOps == {"add_collaborator", "delete_collaborator"}

\* C26: the transaction texts that add_collaborator and delete_collaborator
\* build reach the driver whole: one execute whose text starts with BEGIN,
\* ends with COMMIT, and holds all five statements with their parameters,
\* never only the first statement.
C26_TransactionReachesDriverWhole ==
    (call.op \in CollaboratorOps /\ outcome = "returned") =>
        /\ Len(driver) = 1
        /\ driver[1].sql = executed[1].sql
        /\ driver[1].params = executed[1].params
        /\ driver[1].sql[1] = "BEGIN"
        /\ Cardinality(Separators(driver[1].sql)) = 5
        /\ Len(driver[1].sql) = 10
        /\ driver[1].sql[9] = "COMMIT"
        /\ driver[1].sql \in
              { <<"BEGIN", ";", Sql.grant_usage, ";", Sql.grant_tables, ";",
                  Sql.grant_defaults, ";", "COMMIT", ";">>,
                <<"BEGIN", ";", Sql.revoke_tables, ";", Sql.revoke_schema, ";",
                  Sql.revoke_defaults, ";", "COMMIT", ";">> }

C26_Witness ==
    /\ call.op = "add_collaborator"
    /\ outcome = "returned"
    /\ Len(driver) = 1
    /\ driver[1].sql[3] = Sql.grant_usage
    /\ driver[1].sql[9] = "COMMIT"
    /\ Len(driver[1].params) = 8

(***************************************************************************)
(* C27                                                                     *)
(***************************************************************************)
Stored(s, pk) == \E a \in s.apps : a.pk = pk

C28_RecordAndRoleTogether ==
    (web.view = "app_remove" /\ web.saved # 0
     /\ web.app_id \in web.before.roles) =>
        (Stored(web.after, web.saved) <=> web.app_id \in web.after.roles)

(***************************************************************************)
(* C29                                                                     *)
(***************************************************************************)
\* the credentials posted are those of an account that is active
ActiveCredentials(form) ==
    \E u \in DOMAIN Accounts :
        /\ Spelling[u] = Spelling[lower(form.username)]
        /\ Accounts[u].password = form.password
        /\ Accounts[u].is_active

\* C29: login logs a user in only on a POST with a valid form whose
\* credentials datahub_authenticate answers with an active user, and then
\* redirects to '/'; every other request leaves the session as it was and
\* gets the login form again, with 'Username and password do not match.'
\* when authentication was tried and failed.
C29_LoginOnlyActiveUser ==
    web.view = "login" =>
        LET logged_in == web.django_login
            tried == web.method = "POST" /\ web.form.username # ""
                     /\ web.form.password # ""
        IN  /\ logged_in <=> (tried /\ ActiveCredentials(web.form))
            /\ logged_in =>
                  /\ web.response = Redirect("/")
                  /\ web.after = LoggedIn(lower(web.form.username))
            /\ ~logged_in =>
                  /\ web.after = web.before
                  /\ "page" \in DOMAIN web.response
                  /\ web.response.page = "login.html"
                  /\ tried => NoMatch \in Range(web.response.errors)

\* bob's own password is posted, and bob is not active
C29_Witness ==
    /\ web.view = "login"
    /\ web.method = "POST"
    /\ web.form = [username |-> "bob", password |-> "pw_bob"]
    /\ web.user = "bob"
    /\ web.after = web.before
    /\ web.response = LoginPage(<<NoMatch>>)

(***************************************************************************)
(* C30                                                                     *)
(***************************************************************************)
\* a row with no grantee before "=": a grant to everyone
Anonymous_row(row) == row[1] = "="

\* C30: the user page reports a repo as public exactly when its list of
\* collaborators holds a grant to everyone, and the collaborators it shows
\* never include the empty username or the repo's owner.
C30_PublicWhenAnonymousGrant ==
    web.view = "user" =>
        /\ web.entry.public <=>
              \E i \in DOMAIN web.rows : Anonymous_row(web.rows[i])
        /\ "" \notin Range(web.entry.collaborators)
        /\ web.base \notin Range(web.entry.collaborators)

=============================================================================
